---- MODULE Spec2Model ----
(***************************************************************************)
(* Model of the apply_patch engine of apps/codex-tools/src/apply_patch.ts  *)
(* and of its drivers (main, ApplyPatchTool.invoke).                       *)
(*                                                                         *)
(* Representation.  A JavaScript string is a sequence of one-character     *)
(* strings, so startsWith, slice, trim, split and join are computed        *)
(* character by character.  null is the empty tuple NULL and a present     *)
(* string s is the one-element tuple Some(s), so "absent" and "empty       *)
(* string" stay distinct.  A JavaScript object used as a dictionary is the *)
(* sequence of its [key, val] entries in Object.entries order.             *)
(***************************************************************************)
EXTENDS Integers, Sequences, FiniteSets, TLC

(* ------------------------------ literals ------------------------------ *)

BEGIN_PATCH == <<"*","*","*"," ","B","e","g","i","n"," ","P","a","t","c","h">>
END_PATCH == <<"*","*","*"," ","E","n","d"," ","P","a","t","c","h">>
UPDATE_FILE == <<"*","*","*"," ","U","p","d","a","t","e"," ","F","i","l","e",":"," ">>
DELETE_FILE == <<"*","*","*"," ","D","e","l","e","t","e"," ","F","i","l","e",":"," ">>
ADD_FILE == <<"*","*","*"," ","A","d","d"," ","F","i","l","e",":"," ">>
MOVE_TO == <<"*","*","*"," ","M","o","v","e"," ","t","o",":"," ">>
UPDATE_FILE_KW == <<"*","*","*"," ","U","p","d","a","t","e"," ","F","i","l","e",":">>
DELETE_FILE_KW == <<"*","*","*"," ","D","e","l","e","t","e"," ","F","i","l","e",":">>
ADD_FILE_KW == <<"*","*","*"," ","A","d","d"," ","F","i","l","e",":">>
END_OF_FILE == <<"*","*","*"," ","E","n","d"," ","o","f"," ","F","i","l","e">>
STARS == <<"*","*","*">>
AT_AT == <<"@","@">>
AT_AT_SP == <<"@","@"," ">>
DONE == <<"D","o","n","e","!">>
MSG_UpdateDup == <<"U","p","d","a","t","e"," ","F","i","l","e"," ","E","r","r","o","r",":"," ","D","u","p","l","i","c","a","t","e"," ","P","a","t","h",":"," ">>
MSG_UpdateMissing == <<"U","p","d","a","t","e"," ","F","i","l","e"," ","E","r","r","o","r",":"," ","M","i","s","s","i","n","g"," ","F","i","l","e",":"," ">>
MSG_DeleteDup == <<"D","e","l","e","t","e"," ","F","i","l","e"," ","E","r","r","o","r",":"," ","D","u","p","l","i","c","a","t","e"," ","P","a","t","h",":"," ">>
MSG_DeleteMissing == <<"D","e","l","e","t","e"," ","F","i","l","e"," ","E","r","r","o","r",":"," ","M","i","s","s","i","n","g"," ","F","i","l","e",":"," ">>
MSG_AddDup == <<"A","d","d"," ","F","i","l","e"," ","E","r","r","o","r",":"," ","D","u","p","l","i","c","a","t","e"," ","P","a","t","h",":"," ">>
MSG_UnknownLine == <<"U","n","k","n","o","w","n"," ","L","i","n","e",":"," ">>
MSG_MissingEnd == <<"M","i","s","s","i","n","g"," ","E","n","d"," ","P","a","t","c","h">>
MSG_InvalidLineNL == <<"I","n","v","a","l","i","d"," ","L","i","n","e",":","\n">>
MSG_InvalidLine == <<"I","n","v","a","l","i","d"," ","L","i","n","e",":"," ">>
MSG_InvalidEOFContext == <<"I","n","v","a","l","i","d"," ","E","O","F"," ","C","o","n","t","e","x","t"," ">>
MSG_InvalidContext == <<"I","n","v","a","l","i","d"," ","C","o","n","t","e","x","t"," ">>
MSG_ColonNL == <<":","\n">>
MSG_InvalidAddLine == <<"I","n","v","a","l","i","d"," ","A","d","d"," ","F","i","l","e"," ","L","i","n","e",":"," ">>
MSG_Nothing == <<"N","o","t","h","i","n","g"," ","i","n"," ","t","h","i","s"," ","s","e","c","t","i","o","n"," ","-"," ","i","n","d","e","x","=">>
MSG_InvalidPatchText == <<"I","n","v","a","l","i","d"," ","p","a","t","c","h"," ","t","e","x","t">>
MSG_GetUpdated == <<"_","g","e","t","_","u","p","d","a","t","e","d","_","f","i","l","e",":"," ">>
MSG_ChunkOrigIndex == <<":"," ","c","h","u","n","k",".","o","r","i","g","_","i","n","d","e","x"," ">>
MSG_GtLen == <<" ",">"," ","l","e","n","(","l","i","n","e","s",")"," ">>
MSG_OrigIndex == <<":"," ","o","r","i","g","_","i","n","d","e","x"," ">>
MSG_GtChunk == <<" ",">"," ","c","h","u","n","k",".","o","r","i","g","_","i","n","d","e","x"," ">>
MSG_PathEscapes == <<"P","a","t","h"," ","e","s","c","a","p","e","s"," ","w","o","r","k","s","p","a","c","e",":"," ">>
MSG_Failed == <<"F","a","i","l","e","d",":"," ">>
MSG_NoInput == <<"P","l","e","a","s","e"," ","p","a","s","s"," ","p","a","t","c","h"," ","t","e","x","t"," ","t","h","r","o","u","g","h"," ","s","t","d","i","n">>
MSG_Undefined == <<"u","n","d","e","f","i","n","e","d">>

(* --------------------------- string helpers --------------------------- *)

NULL == <<>>

Some(s) == <<s>>

\* String.prototype.startsWith
StartsWith(s, p) == Len(s) >= Len(p) /\ SubSeq(s, 1, Len(p)) = p

\* String.prototype.slice(n) for 0 <= n
SliceFrom(s, n) == SubSeq(s, n + 1, Len(s))

\* the characters matched by \s and removed by trim() that the model uses
IsSpace(c) == c \in {" ", "\t", "\n", "\r"}

RECURSIVE FirstNonSpace(_, _)
FirstNonSpace(s, i) ==
    IF i > Len(s) THEN i
    ELSE IF IsSpace(s[i]) THEN FirstNonSpace(s, i + 1) ELSE i

RECURSIVE LastNonSpace(_, _)
LastNonSpace(s, i) ==
    IF i < 1 THEN i
    ELSE IF IsSpace(s[i]) THEN LastNonSpace(s, i - 1) ELSE i

\* text.replace(/\s+$/u, "")
rstripSpaces(text) == SubSeq(text, 1, LastNonSpace(text, Len(text)))

\* String.prototype.trim
Trim(s) == SubSeq(s, FirstNonSpace(s, 1), LastNonSpace(s, Len(s)))

\* the index of the first sep in s at or after from, or Len(s) + 1
IndexOfChar(s, sep, from) ==
    IF \E i \in from..Len(s) : s[i] = sep
    THEN CHOOSE i \in from..Len(s) : s[i] = sep /\ \A j \in from..(i - 1) : s[j] # sep
    ELSE Len(s) + 1

\* String.prototype.split(sep) for a one-character separator: always at least
\* one segment
RECURSIVE SplitFrom(_, _, _)
SplitFrom(s, sep, from) ==
    IF IndexOfChar(s, sep, from) > Len(s) THEN << SubSeq(s, from, Len(s)) >>
    ELSE << SubSeq(s, from, IndexOfChar(s, sep, from) - 1) >>
         \o SplitFrom(s, sep, IndexOfChar(s, sep, from) + 1)

SplitChar(s, sep) == SplitFrom(s, sep, 1)

\* text.split("\n")
Split(s) == SplitChar(s, "\n")

\* Array.prototype.join("\n"): the empty array joins to the empty string
RECURSIVE Join(_)
Join(ls) ==
    IF ls = <<>> THEN <<>>
    ELSE IF Len(ls) = 1 THEN ls[1]
    ELSE ls[1] \o <<"\n">> \o Join(Tail(ls))

DigitChar(d) == <<"0", "1", "2", "3", "4", "5", "6", "7", "8", "9">>[d + 1]

\* `${n}` for an integer n
RECURSIVE Dec(_)
Dec(n) ==
    IF n < 0 THEN <<"-">> \o Dec(0 - n)
    ELSE IF n < 10 THEN << DigitChar(n) >>
    ELSE Dec(n \div 10) \o << DigitChar(n % 10) >>

\* startsWithAny(text, prefixes)
startsWithAny(text, prefixes) == \E p \in prefixes : StartsWith(text, p)

\* sliceLikePython(arr, start, end): 0-based, end exclusive, negative from the end
sliceLikePython(arr, start, end) ==
    LET len == Len(arr)
        max0(x) == IF x > 0 THEN x ELSE 0
        minLen(x) == IF x < len THEN x ELSE len
        normStart == IF start < 0 THEN max0(len + start) ELSE minLen(start)
        normEnd == IF end < 0 THEN max0(len + end) ELSE minLen(end)
    IN  IF normEnd <= normStart THEN <<>> ELSE SubSeq(arr, normStart + 1, normEnd)

\* Array.prototype.slice(a, b) for 0 <= a, 0 <= b
SliceJS(arr, a, b) ==
    LET e == IF b < Len(arr) THEN b ELSE Len(arr)
    IN  IF e <= a THEN <<>> ELSE SubSeq(arr, a + 1, e)

(* ------------------ JavaScript objects as dictionaries ------------------ *)

IsDigit(c) == c \in {"0", "1", "2", "3", "4", "5", "6", "7", "8", "9"}

DigitVal(c) == CHOOSE d \in 0..9 : DigitChar(d) = c

RECURSIVE NumVal(_)
NumVal(k) == IF k = <<>> THEN 0 ELSE 10 * NumVal(SubSeq(k, 1, Len(k) - 1)) + DigitVal(k[Len(k)])

\* an "array index" property key: the canonical decimal form of an integer
\* below 2^32 - 1; Object.entries lists these first, in ascending order
IsArrayIndex(k) ==
    /\ Len(k) >= 1
    /\ Len(k) <= 9
    /\ \A i \in 1..Len(k) : IsDigit(k[i])
    /\ (Len(k) > 1 => k[1] # "0")

\* hasOwn(obj, key)
hasOwn(obj, key) == \E i \in 1..Len(obj) : obj[i].key = key

\* obj[key] for an own key
ObjGet(obj, key) == obj[CHOOSE i \in 1..Len(obj) : obj[i].key = key].val

\* number of entries that Object.entries lists before a new key k
ObjInsertPos(obj, k) ==
    IF IsArrayIndex(k)
    THEN Cardinality({i \in 1..Len(obj) :
                        IsArrayIndex(obj[i].key) /\ NumVal(obj[i].key) < NumVal(k)})
    ELSE Len(obj)

\* obj[key] = val, keeping Object.entries order
ObjSet(obj, k, v) ==
    IF hasOwn(obj, k)
    THEN [i \in 1..Len(obj) |-> IF obj[i].key = k THEN [key |-> k, val |-> v] ELSE obj[i]]
    ELSE LET n == ObjInsertPos(obj, k)
         IN  SubSeq(obj, 1, n) \o << [key |-> k, val |-> v] >> \o SubSeq(obj, n + 1, Len(obj))

ObjKeys(obj) == [i \in 1..Len(obj) |-> obj[i].key]

(* --------------------------- Context Matcher --------------------------- *)

arraysEqual(a, b) == a = b

\* the line as each pass of the matcher compares it
Norm(pass, line) ==
    IF pass = "exact" THEN line
    ELSE IF pass = "rstrip" THEN rstripSpaces(line)
    ELSE Trim(line)

NormAll(pass, arr) == [i \in 1..Len(arr) |-> Norm(pass, arr[i])]

\* a faulty pass that takes the first offset at which any of the three
\* comparisons succeeds: the tie-break property must tell it from FirstMatch
RECURSIVE FirstMatchAnyPass(_, _, _, _)
FirstMatchAnyPass(lines, context, i, pass) ==
    IF i >= Len(lines) THEN -1
    ELSE IF \E p \in {"exact", "rstrip", "trim"} :
                arraysEqual(NormAll(p, sliceLikePython(lines, i, i + Len(context))),
                            NormAll(p, context))
         THEN i
         ELSE FirstMatchAnyPass(lines, context, i + 1, pass)

\* one pass of find_context_core: the first i in start..lines.length-1 whose
\* window equals the context after norm is applied to both, else -1
RECURSIVE FirstMatch(_, _, _, _)
FirstMatch(lines, context, i, pass) ==
    IF i >= Len(lines) THEN -1
    ELSE IF arraysEqual(NormAll(pass, sliceLikePython(lines, i, i + Len(context))),
                        NormAll(pass, context))
         THEN i
         ELSE FirstMatch(lines, context, i + 1, pass)

\* the third pass of find_context_core: t is its first match
PassTrim(t) == IF t # -1 THEN <<t, 100>> ELSE <<-1, 0>>

\* a faulty second pass that is skipped: a match after stripping trailing white
\* space is found by the third pass only, with its penalty
PassRstripSkipped(lines, context, start, r) ==
    PassTrim(FirstMatch(lines, context, start, "trim"))

\* the second pass of find_context_core: r is its first match
PassRstrip(lines, context, start, r) ==
    IF r # -1 THEN <<r, 1>>
    ELSE PassTrim(FirstMatch(lines, context, start, "trim"))

\* the first pass of find_context_core: e is its first match
PassExact(lines, context, start, e) ==
    IF e # -1 THEN <<e, 0>>
    ELSE PassRstrip(lines, context, start, FirstMatch(lines, context, start, "rstrip"))

\* find_context_core(lines, context, start): <<newIndex, fuzz>>
find_context_core(lines, context, start) ==
    IF Len(context) = 0 THEN <<start, 0>>
    ELSE PassExact(lines, context, start, FirstMatch(lines, context, start, "exact"))

\* a faulty fallback that returns the search from the cursor as it is
EofPenaltyNone(found) == found

\* `return [newIndex, fuzz + 10000]`
EofPenalty(found) == <<found[1], found[2] + 10000>>

\* the eof branch of find_context once the search from preferStart gave first
FindFromCursor(lines, context, start, first) ==
    IF first[1] # -1 THEN first
    ELSE EofPenalty(find_context_core(lines, context, start))

\* a faulty find_context that searches forward from the cursor whether or not
\* the hunk is EOF-anchored: the anchoring property must tell it from find_context
FindContextIgnoresEof(lines, context, start, eof) == find_context_core(lines, context, start)

\* find_context(lines, context, start, eof): <<newIndex, fuzz>>
find_context(lines, context, start, eof) ==
    IF eof
    THEN FindFromCursor(lines, context, start,
                        find_context_core(lines, context, Len(lines) - Len(context)))
    ELSE find_context_core(lines, context, start)

(* --------------------- Line Scanner (peek_next_section) --------------------- *)

DiffError(message) == [cls |-> "DiffError", message |-> message]

AssertFail(message) == [cls |-> "AssertionError", message |-> message]

\* `${lines[index]}`: undefined past the end
LineText(lines, index) == IF index < Len(lines) THEN lines[index + 1] ELSE MSG_Undefined

Chunk(orig_index, del_lines, ins_lines) ==
    [orig_index |-> orig_index, del_lines |-> del_lines, ins_lines |-> ins_lines]

\* the lines at which peek_next_section stops
SectionBoundary(line) ==
    \/ StartsWith(line, AT_AT)
    \/ StartsWith(line, END_PATCH)
    \/ StartsWith(line, UPDATE_FILE_KW)
    \/ StartsWith(line, DELETE_FILE_KW)
    \/ StartsWith(line, ADD_FILE_KW)
    \/ StartsWith(line, END_OF_FILE)
    \/ line = STARS

\* `if (line === "") line = " "`
BlankAsSpace(line) == IF line = <<>> THEN <<" ">> ELSE line

\* a faulty choice of mode that keeps every line it does not know
ModeOfLenient(line) ==
    IF line[1] = "+" THEN "add"
    ELSE IF line[1] = "-" THEN "delete"
    ELSE "keep"

\* the mode the first character of a body line selects
ModeOf(line) ==
    IF line[1] = "+" THEN "add"
    ELSE IF line[1] = "-" THEN "delete"
    ELSE IF line[1] = " " THEN "keep"
    ELSE "invalid"

\* the pending (delete, insert) pair becomes a chunk, if there is one
PushChunk(s) ==
    IF Len(s.ins_lines) > 0 \/ Len(s.del_lines) > 0
    THEN Append(s.chunks, Chunk(Len(s.old) - Len(s.del_lines), s.del_lines, s.ins_lines))
    ELSE s.chunks

\* a faulty flush at every change of mode: a deletion followed by an insertion
\* gives two chunks
FlushOnModeChange(s, mode) ==
    IF s.mode # mode
    THEN [s EXCEPT !.chunks = PushChunk(s), !.del_lines = <<>>, !.ins_lines = <<>>]
    ELSE s

\* the flush of peek_next_section when the mode turns back to keep
FlushOnKeep(s, mode) ==
    IF mode = "keep" /\ s.mode # mode
    THEN [s EXCEPT !.chunks = PushChunk(s), !.del_lines = <<>>, !.ins_lines = <<>>]
    ELSE s

\* the line goes to old, del_lines or ins_lines according to the mode
PushLine(s, body, mode) ==
    [s EXCEPT !.mode = mode,
              !.old = IF mode = "add" THEN @ ELSE Append(@, body),
              !.del_lines = IF mode = "delete" THEN Append(@, body) ELSE @,
              !.ins_lines = IF mode = "add" THEN Append(@, body) ELSE @]

\* one body line of peek_next_section, after `index += 1`
ScanLine(s, line, mode) ==
    IF mode = "invalid"
    THEN [s EXCEPT !.err = Some(DiffError(MSG_InvalidLine \o line))]
    ELSE PushLine(FlushOnKeep(s, mode), SliceFrom(line, 1), mode)

\* the while loop of peek_next_section; s holds its local variables
RECURSIVE ScanSection(_, _)
ScanSection(lines, s) ==
    IF s.err # NULL \/ s.index >= Len(lines) THEN s
    ELSE IF SectionBoundary(lines[s.index + 1]) THEN s
    ELSE IF StartsWith(lines[s.index + 1], STARS)
    THEN [s EXCEPT !.err = Some(DiffError(MSG_InvalidLine \o lines[s.index + 1]))]
    ELSE ScanSection(lines,
            ScanLine([s EXCEPT !.index = @ + 1],
                     BlankAsSpace(lines[s.index + 1]),
                     ModeOf(BlankAsSpace(lines[s.index + 1]))))

SectionResult(err, old, chunks, index, eof) ==
    [err |-> err, old |-> old, chunks |-> chunks, index |-> index, eof |-> eof]

\* a faulty end that looks for an empty section before it looks for the
\* end-of-file marker
SectionEndEmptyFirst(lines, index, s) ==
    IF s.err # NULL
    THEN SectionResult(s.err, <<>>, <<>>, s.index, FALSE)
    ELSE IF s.index = index
    THEN SectionResult(
            Some(DiffError(MSG_Nothing \o Dec(index) \o <<" ">> \o LineText(lines, index))),
            <<>>, <<>>, s.index, FALSE)
    ELSE IF s.index < Len(lines) /\ lines[s.index + 1] = END_OF_FILE
    THEN SectionResult(NULL, s.old, PushChunk(s), s.index + 1, TRUE)
    ELSE SectionResult(NULL, s.old, PushChunk(s), s.index, FALSE)

\* the end of peek_next_section, after its loop left s
SectionEnd(lines, index, s) ==
    IF s.err # NULL
    THEN SectionResult(s.err, <<>>, <<>>, s.index, FALSE)
    ELSE IF s.index < Len(lines) /\ lines[s.index + 1] = END_OF_FILE
    THEN SectionResult(NULL, s.old, PushChunk(s), s.index + 1, TRUE)
    ELSE IF s.index = index
    THEN SectionResult(
            Some(DiffError(MSG_Nothing \o Dec(index) \o <<" ">> \o LineText(lines, index))),
            <<>>, <<>>, s.index, FALSE)
    ELSE SectionResult(NULL, s.old, PushChunk(s), s.index, FALSE)

\* a faulty peek_next_section that accepts a section without lines
peek_next_sectionAllowsEmpty(lines, index) ==
    LET r == SectionEnd(lines, index,
                ScanSection(lines,
                    [err |-> NULL, index |-> index, mode |-> "keep", chunks |-> <<>>,
                     old |-> <<>>, del_lines |-> <<>>, ins_lines |-> <<>>]))
    IN  IF r.err # NULL /\ StartsWith(r.err[1].message, MSG_Nothing)
        THEN SectionResult(NULL, <<>>, <<>>, index, FALSE)
        ELSE r

\* peek_next_section(lines, index): [err, old, chunks, index, eof]
peek_next_section(lines, index) ==
    SectionEnd(lines, index,
        ScanSection(lines,
            [err |-> NULL, index |-> index, mode |-> "keep", chunks |-> <<>>,
             old |-> <<>>, del_lines |-> <<>>, ins_lines |-> <<>>]))

(* ----------------------------- Action Parser ----------------------------- *)

ADD == "add"

DELETE == "delete"

UPDATE == "update"

PatchAction(type, new_file, chunks, move_path) ==
    [type |-> type, new_file |-> new_file, chunks |-> chunks, move_path |-> move_path]

UpdatePrefixes == {END_PATCH, UPDATE_FILE_KW, DELETE_FILE_KW, ADD_FILE_KW, END_OF_FILE}

AddPrefixes == {END_PATCH, UPDATE_FILE_KW, DELETE_FILE_KW, ADD_FILE_KW}

\* Parser.is_done(prefixes)
is_done(lines, index, prefixes) ==
    \/ index >= Len(lines)
    \/ startsWithAny(lines[index + 1], prefixes)

\* Parser.read_str(prefix): [text, index]; requires index < Len(lines)
read_str(lines, index, prefix) ==
    IF StartsWith(lines[index + 1], prefix)
    THEN [text |-> SliceFrom(lines[index + 1], Len(prefix)), index |-> index + 1]
    ELSE [text |-> <<>>, index |-> index]

\* first i in from..Len(lines)-1 whose line equals target after norm, else -1
RECURSIVE IndexOfLine(_, _, _, _)
IndexOfLine(lines, target, i, pass) ==
    IF i >= Len(lines) THEN -1
    ELSE IF Norm(pass, lines[i + 1]) = Norm(pass, target) THEN i
    ELSE IndexOfLine(lines, target, i + 1, pass)

\* lines.slice(0, idx).some(line => norm(line) === norm(target))
SomeBefore(lines, target, idx, pass) ==
    \E i \in 1..Len(SliceJS(lines, 0, idx)) : Norm(pass, lines[i]) = Norm(pass, target)

\* the first search of the "@@ <def_str>" block: the index of the first line
\* at or after idx equal to def_str, unless an earlier line equals it; else -1
AnchorIndex(lines, def_str, idx, pass) ==
    IF SomeBefore(lines, def_str, idx, pass) THEN -1
    ELSE IndexOfLine(lines, def_str, idx, pass)

AnchorResult(idx, fuzz) == [idx |-> idx, fuzz |-> fuzz]

\* a faulty second search that moves the cursor and adds no fuzz
AnchorFuzzyFree(idx, fuzzy) ==
    IF fuzzy # -1 THEN AnchorResult(fuzzy + 1, 0) ELSE AnchorResult(idx, 0)

\* the second search of the block, after the trimmed comparison gave fuzzy
AnchorFuzzy(idx, fuzzy) ==
    IF fuzzy # -1 THEN AnchorResult(fuzzy + 1, 1) ELSE AnchorResult(idx, 0)

\* the block after the exact comparison gave exact
AnchorExact(lines, def_str, idx, exact) ==
    IF exact # -1 THEN AnchorResult(exact + 1, 0)
    ELSE AnchorFuzzy(idx, AnchorIndex(lines, def_str, idx, "trim"))

\* a faulty block that seeks a blank anchor as well
SeekAnchorBlankToo(lines, def_str, idx) ==
    AnchorExact(lines, def_str, idx, AnchorIndex(lines, def_str, idx, "exact"))

\* the `if (def_str.trim())` block of parse_update_file: [idx, fuzz]
SeekAnchor(lines, def_str, idx) ==
    IF Trim(def_str) = <<>> THEN AnchorResult(idx, 0)
    ELSE AnchorExact(lines, def_str, idx, AnchorIndex(lines, def_str, idx, "exact"))

\* a faulty shift that counts the offsets of the file from 1
ShiftChunksFromOne(chunks, newIndex) ==
    [i \in 1..Len(chunks) |-> [chunks[i] EXCEPT !.orig_index = @ + newIndex + 1]]

\* chunk.orig_index += newIndex for every chunk of the section
ShiftChunks(chunks, newIndex) ==
    [i \in 1..Len(chunks) |-> [chunks[i] EXCEPT !.orig_index = @ + newIndex]]

\* `this.lines[this.index] === "@@"` when read_str("@@ ") gave nothing
HasSectionStr(plines, def) ==
    def.text = <<>> /\ def.index < Len(plines) /\ plines[def.index + 1] = AT_AT

\* Parser.index after the hunk header
AfterHeader(def, section) == IF section THEN def.index + 1 ELSE def.index

\* the locals of one iteration of the loop of parse_update_file, kept for
\* inspection: next_chunk_context, the section's chunks before the shift,
\* eof, the cursor idx handed to find_context, newIndex and the penalty
Hunk(sec, start, found) ==
    [context |-> sec.old, chunks |-> sec.chunks, eof |-> sec.eof, start |-> start,
     newIndex |-> found[1], penalty |-> found[2]]

HunkResult(err, index, idx, chunks, fuzz, hunk) ==
    [err |-> err, index |-> index, idx |-> idx, chunks |-> chunks, fuzz |-> fuzz,
     hunk |-> hunk]

\* a hunk whose context was searched: found is the result of find_context
HunkResolve(s, anchor, sec, found) ==
    IF found[1] = -1
    THEN HunkResult(Some(DiffError(
                        (IF sec.eof THEN MSG_InvalidEOFContext ELSE MSG_InvalidContext)
                        \o Dec(anchor.idx) \o MSG_ColonNL \o Join(sec.old))),
                    s.index, s.idx, s.chunks, s.fuzz + anchor.fuzz, NULL)
    ELSE HunkResult(NULL,
                    sec.index,
                    found[1] + Len(sec.old),
                    s.chunks \o ShiftChunks(sec.chunks, found[1]),
                    s.fuzz + anchor.fuzz + found[2],
                    Some(Hunk(sec, anchor.idx, found)))

\* a hunk whose anchor was sought and whose body was scanned
HunkMatch(lines, s, anchor, sec) ==
    IF sec.err # NULL
    THEN HunkResult(sec.err, sec.index, s.idx, s.chunks, s.fuzz + anchor.fuzz, NULL)
    ELSE HunkResolve(s, anchor, sec, find_context(lines, sec.old, anchor.idx, sec.eof))

\* a faulty parse_update_file that lets every hunk start without "@@": the
\* rule on the anchor of later hunks must tell it from HunkBody
HunkBodyHeaderOptional(plines, lines, s, def, section) ==
    HunkMatch(lines, [s EXCEPT !.index = AfterHeader(def, section)],
              SeekAnchor(lines, def.text, s.idx),
              peek_next_section(plines, AfterHeader(def, section)))

\* a hunk whose header was read: def is read_str("@@ "), section tells
\* whether a bare "@@" line was consumed instead
HunkBody(plines, lines, s, def, section) ==
    IF ~(def.text # <<>> \/ section \/ s.idx = 0)
    THEN HunkResult(Some(DiffError(MSG_InvalidLineNL
                                   \o LineText(plines, AfterHeader(def, section)))),
                    AfterHeader(def, section), s.idx, s.chunks, s.fuzz, NULL)
    ELSE HunkMatch(lines, [s EXCEPT !.index = AfterHeader(def, section)],
                   SeekAnchor(lines, def.text, s.idx),
                   peek_next_section(plines, AfterHeader(def, section)))

\* one iteration of the while loop of Parser.parse_update_file over the
\* file's lines, entered with ~is_done; s = [index, idx, chunks, fuzz]
HunkStep(plines, lines, s) ==
    HunkBody(plines, lines, s, read_str(plines, s.index, AT_AT_SP),
             HasSectionStr(plines, read_str(plines, s.index, AT_AT_SP)))

RECURSIVE AddLoop(_, _)

\* one line of an Add File body: r is the result of read_str()
AddLine(plines, s, r) ==
    IF ~StartsWith(r.text, <<"+">>)
    THEN [s EXCEPT !.err = Some(DiffError(MSG_InvalidAddLine \o r.text)), !.index = r.index]
    ELSE AddLoop(plines,
            [err |-> NULL, index |-> r.index, lines |-> Append(s.lines, SliceFrom(r.text, 1))])

\* the while loop of Parser.parse_add_file; s = [err, index, lines]
AddLoop(plines, s) ==
    IF is_done(plines, s.index, AddPrefixes) THEN s
    ELSE AddLine(plines, s, read_str(plines, s.index, <<>>))

\* a faulty end of parse_add_file that ends the new file with a newline: the
\* end-to-end property of Add must tell it from AddResult
AddResultTrailingNewline(s) ==
    [err |-> s.err,
     action |-> PatchAction(ADD, Some(Join(s.lines) \o <<"\n">>), <<>>, NULL),
     index |-> s.index]

\* the end of parse_add_file: the action with the lines joined
AddResult(s) ==
    [err |-> s.err,
     action |-> PatchAction(ADD, Some(Join(s.lines)), <<>>, NULL),
     index |-> s.index]

\* Parser.parse_add_file(): [err, action, index]
parse_add_file(plines, index) ==
    AddResult(AddLoop(plines, [err |-> NULL, index |-> index, lines |-> <<>>]))

\* the message of the pyAssert in Parser.startswith and Parser.read_str
MSG_Index(index, len) ==
    <<"I", "n", "d", "e", "x", ":", " ">> \o Dec(index) \o <<" ", ">", "=", " ">> \o Dec(len)

ParseResult(err, branch, index, actions, fuzz, upd) ==
    [err |-> err, branch |-> branch, index |-> index, actions |-> actions, fuzz |-> fuzz,
     upd |-> upd]

\* the locals of parse and parse_update_file while an Update section is read:
\* filePath, move_to, the file's lines, the cursor idx and action.chunks
Update(filePath, move_to, text) ==
    [path |-> filePath, move_to |-> move_to, lines |-> Split(text), idx |-> 0,
     chunks |-> <<>>]

\* Parser.parse, Update branch after read_str("*** Move to: ") gave m:
\* parse_update_file is entered
UpdateMove(actions, fuzz, current_files, filePath, m) ==
    IF ~hasOwn(current_files, filePath)
    THEN ParseResult(Some(DiffError(MSG_UpdateMissing \o filePath)), "update", m.index,
                     actions, fuzz, NULL)
    ELSE ParseResult(NULL, "update", m.index, actions, fuzz,
                     Some(Update(filePath, m.text, ObjGet(current_files, filePath))))

\* Parser.parse, Update branch: u is the result of read_str("*** Update File: ")
UpdateBranch(lines, actions, fuzz, current_files, u) ==
    IF hasOwn(actions, u.text)
    THEN ParseResult(Some(DiffError(MSG_UpdateDup \o u.text)), "update", u.index, actions,
                     fuzz, NULL)
    ELSE IF u.index >= Len(lines)
    THEN ParseResult(Some(AssertFail(MSG_Index(u.index, Len(lines)))), "update", u.index,
                     actions, fuzz, NULL)
    ELSE UpdateMove(actions, fuzz, current_files, u.text, read_str(lines, u.index, MOVE_TO))

\* Parser.parse, Add branch: r is the result of parse_add_file
AddParsed(actions, fuzz, filePath, r) ==
    IF r.err # NULL
    THEN ParseResult(r.err, "add", r.index, actions, fuzz, NULL)
    ELSE ParseResult(NULL, "add", r.index, ObjSet(actions, filePath, r.action), fuzz, NULL)

\* a faulty Add branch without the test for a recorded path: the property of
\* one action per path must tell it from AddBranch
AddBranchOverwrites(lines, actions, fuzz, a) ==
    IF a.text = <<>>
    THEN ParseResult(Some(DiffError(MSG_UnknownLine \o LineText(lines, a.index))), "unknown",
                     a.index, actions, fuzz, NULL)
    ELSE AddParsed(actions, fuzz, a.text, parse_add_file(lines, a.index))

\* Parser.parse, Add branch and the final throw: a is the result of
\* read_str("*** Add File: ")
AddBranch(lines, actions, fuzz, a) ==
    IF a.text = <<>>
    THEN ParseResult(Some(DiffError(MSG_UnknownLine \o LineText(lines, a.index))), "unknown",
                     a.index, actions, fuzz, NULL)
    ELSE IF hasOwn(actions, a.text)
    THEN ParseResult(Some(DiffError(MSG_AddDup \o a.text)), "add", a.index, actions, fuzz, NULL)
    ELSE AddParsed(actions, fuzz, a.text, parse_add_file(lines, a.index))

\* a faulty Delete branch without the test for a missing file
DeleteBranchNoMissing(lines, actions, fuzz, current_files, d) ==
    IF d.text = <<>>
    THEN IF d.index >= Len(lines)
         THEN ParseResult(Some(AssertFail(MSG_Index(d.index, Len(lines)))), "add", d.index,
                          actions, fuzz, NULL)
         ELSE AddBranch(lines, actions, fuzz, read_str(lines, d.index, ADD_FILE))
    ELSE IF hasOwn(actions, d.text)
    THEN ParseResult(Some(DiffError(MSG_DeleteDup \o d.text)), "delete", d.index, actions, fuzz, NULL)
    ELSE ParseResult(NULL, "delete", d.index,
                     ObjSet(actions, d.text, PatchAction(DELETE, NULL, <<>>, NULL)), fuzz, NULL)

\* Parser.parse, Delete branch: d is the result of read_str("*** Delete File: ")
DeleteBranch(lines, actions, fuzz, current_files, d) ==
    IF d.text = <<>>
    THEN IF d.index >= Len(lines)
         THEN ParseResult(Some(AssertFail(MSG_Index(d.index, Len(lines)))), "add", d.index,
                          actions, fuzz, NULL)
         ELSE AddBranch(lines, actions, fuzz, read_str(lines, d.index, ADD_FILE))
    ELSE IF hasOwn(actions, d.text)
    THEN ParseResult(Some(DiffError(MSG_DeleteDup \o d.text)), "delete", d.index, actions, fuzz, NULL)
    ELSE IF ~hasOwn(current_files, d.text)
    THEN ParseResult(Some(DiffError(MSG_DeleteMissing \o d.text)), "delete", d.index,
                     actions, fuzz, NULL)
    ELSE ParseResult(NULL, "delete", d.index,
                     ObjSet(actions, d.text, PatchAction(DELETE, NULL, <<>>, NULL)), fuzz, NULL)

\* Parser.parse after read_str("*** Update File: ") gave u
SectionHeader(lines, actions, fuzz, current_files, u) ==
    IF u.text # <<>>
    THEN UpdateBranch(lines, actions, fuzz, current_files, u)
    ELSE IF u.index >= Len(lines)
    THEN ParseResult(Some(AssertFail(MSG_Index(u.index, Len(lines)))), "delete", u.index,
                     actions, fuzz, NULL)
    ELSE DeleteBranch(lines, actions, fuzz, current_files,
                      read_str(lines, u.index, DELETE_FILE))

\* one iteration of the while loop of Parser.parse, entered with
\* index < Len(lines), up to the call of parse_update_file if it makes one:
\* [err, branch, index, actions, fuzz, upd]
ParseSection(lines, index, actions, fuzz, current_files) ==
    SectionHeader(lines, actions, fuzz, current_files, read_str(lines, index, UPDATE_FILE))

\* the end of Parser.parse, after its loop: [err, index]
ParseEnd(lines, index) ==
    IF index >= Len(lines)
    THEN [err |-> Some(AssertFail(MSG_Index(index, Len(lines)))), index |-> index]
    ELSE IF ~StartsWith(lines[index + 1], END_PATCH)
    THEN [err |-> Some(DiffError(MSG_MissingEnd)), index |-> index]
    ELSE [err |-> NULL, index |-> index + 1]

\* a faulty envelope test that does not look at the last line
InvalidPatchTextNoEnd(lines) ==
    \/ Len(lines) < 2
    \/ ~StartsWith(lines[1], BEGIN_PATCH)

\* the envelope test of text_to_patch on its lines
InvalidPatchText(lines) ==
    \/ Len(lines) < 2
    \/ ~StartsWith(lines[1], BEGIN_PATCH)
    \/ lines[Len(lines)] # END_PATCH

RECURSIVE ParseLoop(_, _, _)

\* parse_update_file after one iteration of its loop gave r: the error is
\* thrown or the loop goes on with the chunks and the cursor of the hunk
AfterHunk(lines, current_files, s, r) ==
    IF r.err # NULL THEN [err |-> r.err, actions |-> s.actions, fuzz |-> r.fuzz]
    ELSE ParseLoop(lines, current_files,
            [index |-> r.index, actions |-> s.actions, fuzz |-> r.fuzz,
             upd |-> Some([s.upd[1] EXCEPT !.idx = r.idx, !.chunks = r.chunks])])

\* Parser.parse after one iteration of its loop gave r
AfterSection(lines, current_files, s, r) ==
    IF r.err # NULL THEN [err |-> r.err, actions |-> s.actions, fuzz |-> s.fuzz]
    ELSE ParseLoop(lines, current_files,
            [index |-> r.index, actions |-> r.actions, fuzz |-> r.fuzz, upd |-> r.upd])

\* Parser.parse with the calls of parse_update_file it makes, run to its end:
\* s holds Parser.index, the actions, the fuzz and the Update section that
\* parse_update_file is reading, or NULL; the result is [err, actions, fuzz]
ParseLoop(lines, current_files, s) ==
    IF s.upd # NULL
    THEN IF is_done(lines, s.index, UpdatePrefixes)
         THEN ParseLoop(lines, current_files,
                 [s EXCEPT !.actions = ObjSet(@, s.upd[1].path,
                               PatchAction(UPDATE, NULL, s.upd[1].chunks,
                                           Some(s.upd[1].move_to))),
                           !.upd = NULL])
         ELSE AfterHunk(lines, current_files, s,
                 HunkStep(lines, s.upd[1].lines,
                          [index |-> s.index, idx |-> s.upd[1].idx,
                           chunks |-> s.upd[1].chunks, fuzz |-> s.fuzz]))
    ELSE IF is_done(lines, s.index, {END_PATCH})
    THEN [err |-> ParseEnd(lines, s.index).err, actions |-> s.actions, fuzz |-> s.fuzz]
    ELSE AfterSection(lines, current_files, s,
            ParseSection(lines, s.index, s.actions, s.fuzz, current_files))

\* text_to_patch(text, orig) as a function of its arguments: [err, actions, fuzz]
text_to_patch(text, orig) ==
    IF InvalidPatchText(Split(Trim(text)))
    THEN [err |-> Some(DiffError(MSG_InvalidPatchText)), actions |-> <<>>, fuzz |-> 0]
    ELSE ParseLoop(Split(Trim(text)), orig,
                   [index |-> 1, actions |-> <<>>, fuzz |-> 0, upd |-> NULL])

\* result.add(x) on a Set kept in insertion order
SetAdd(s, x) == IF \E j \in 1..Len(s) : s[j] = x THEN s ELSE Append(s, x)

\* the body of the loop of identify_files_needed for one line
NeededIn(acc, line, prefix) ==
    IF StartsWith(line, prefix) THEN SetAdd(acc, SliceFrom(line, Len(prefix))) ELSE acc

\* the loop of identify_files_needed
RECURSIVE FilesNeeded(_, _, _)
FilesNeeded(lines, i, acc) ==
    IF i > Len(lines) THEN acc
    ELSE FilesNeeded(lines, i + 1,
                     NeededIn(NeededIn(acc, lines[i], UPDATE_FILE), lines[i], DELETE_FILE))

\* the loop of a faulty identify_files_needed that skips the Delete headers
RECURSIVE UpdatesNeeded(_, _, _)
UpdatesNeeded(lines, i, acc) ==
    IF i > Len(lines) THEN acc
    ELSE UpdatesNeeded(lines, i + 1, NeededIn(acc, lines[i], UPDATE_FILE))

identify_updates_needed(text) == UpdatesNeeded(Split(Trim(text)), 1, <<>>)

\* identify_files_needed(text): the paths in order of first appearance
identify_files_needed(text) == FilesNeeded(Split(Trim(text)), 1, <<>>)

(* ------------------- Chunk Applier and Commit Assembler ------------------- *)

FileChange(type, old_content, new_content, move_path) ==
    [type |-> type, old_content |-> old_content, new_content |-> new_content,
     move_path |-> move_path]

\* a faulty body of the loop that does not step over the deleted lines: the
\* properties of the applier must tell it from ApplyChunk
ApplyChunkKeepsDeleted(orig_lines, chunk, s) ==
    [err |-> NULL,
     orig_index |-> chunk.orig_index,
     dest_index |-> s.dest_index + (chunk.orig_index - s.orig_index) + Len(chunk.ins_lines),
     dest_lines |-> s.dest_lines
                    \o SliceJS(orig_lines, s.orig_index, chunk.orig_index)
                    \o chunk.ins_lines]

\* the body of the for loop of getUpdatedFile for one chunk that passed the
\* two range tests
ApplyChunk(orig_lines, chunk, s) ==
    [err |-> NULL,
     orig_index |-> chunk.orig_index + Len(chunk.del_lines),
     dest_index |-> s.dest_index + (chunk.orig_index - s.orig_index) + Len(chunk.ins_lines),
     dest_lines |-> s.dest_lines
                    \o SliceJS(orig_lines, s.orig_index, chunk.orig_index)
                    \o chunk.ins_lines]

\* getUpdatedFile without its two range tests
NoRangeError(orig_lines, chunk, filePath, orig_index) == NULL

\* the two range tests of getUpdatedFile on one chunk, orig_index being the
\* cursor: the DiffError that is thrown, or NULL
RangeError(orig_lines, chunk, filePath, orig_index) ==
    IF chunk.orig_index > Len(orig_lines)
    THEN Some(DiffError(MSG_GetUpdated \o filePath \o MSG_ChunkOrigIndex
                        \o Dec(chunk.orig_index) \o MSG_GtLen \o Dec(Len(orig_lines))))
    ELSE IF orig_index > chunk.orig_index
    THEN Some(DiffError(MSG_GetUpdated \o filePath \o MSG_OrigIndex \o Dec(orig_index)
                        \o MSG_GtChunk \o Dec(chunk.orig_index)))
    ELSE NULL

RECURSIVE ApplyChunks(_, _, _, _, _)

\* one iteration of the for loop of getUpdatedFile: e is what the range tests gave
ChunkStep(orig_lines, chunks, k, filePath, s, e) ==
    IF e # NULL THEN [s EXCEPT !.err = e]
    ELSE ApplyChunks(orig_lines, chunks, k + 1, filePath, ApplyChunk(orig_lines, chunks[k], s))

\* the for loop of getUpdatedFile; s = [err, orig_index, dest_index, dest_lines]
ApplyChunks(orig_lines, chunks, k, filePath, s) ==
    IF k > Len(chunks) THEN s
    ELSE ChunkStep(orig_lines, chunks, k, filePath, s,
                   RangeError(orig_lines, chunks[k], filePath, s.orig_index))

UpdatedFile(err, content) == [err |-> err, content |-> content]

\* a faulty end that does not copy the lines after the last chunk
CopyRestDropsTail(orig_lines, s) ==
    IF s.err # NULL THEN UpdatedFile(s.err, <<>>)
    ELSE UpdatedFile(NULL, Join(s.dest_lines))

\* the end of getUpdatedFile, after its loop left s: the rest of the file is
\* copied and the two counters are asserted
CopyRest(orig_lines, s) ==
    IF s.err # NULL THEN UpdatedFile(s.err, <<>>)
    ELSE IF s.dest_index + (Len(orig_lines) - s.orig_index)
            # Len(s.dest_lines) + Len(SliceJS(orig_lines, s.orig_index, Len(orig_lines)))
    THEN UpdatedFile(Some(AssertFail(<<>>)), <<>>)
    ELSE UpdatedFile(NULL,
            Join(s.dest_lines \o SliceJS(orig_lines, s.orig_index, Len(orig_lines))))

\* getUpdatedFile(text, action, filePath): [err, content]
getUpdatedFile(text, action, filePath) ==
    IF action.type # UPDATE
    THEN UpdatedFile(Some(AssertFail(<<>>)), <<>>)
    ELSE CopyRest(Split(text),
            ApplyChunks(Split(text), action.chunks, 1, filePath,
                [err |-> NULL, orig_index |-> 0, dest_index |-> 0, dest_lines |-> <<>>]))

RECURSIVE CommitLoop(_, _, _, _)

\* patch_to_commit, Update branch: r is the result of getUpdatedFile
CommitUpdate(actions, orig, k, s, r) ==
    IF r.err # NULL THEN [s EXCEPT !.err = r.err]
    ELSE CommitLoop(actions, orig, k + 1,
            [s EXCEPT !.changes = ObjSet(@, actions[k].key,
                FileChange(UPDATE, Some(ObjGet(orig, actions[k].key)), Some(r.content),
                           actions[k].val.move_path))])

\* the for loop of patch_to_commit over Object.entries(patch.actions)
CommitLoop(actions, orig, k, s) ==
    IF k > Len(actions) THEN s
    ELSE IF actions[k].val.type = DELETE
    THEN CommitLoop(actions, orig, k + 1,
            [s EXCEPT !.changes = ObjSet(@, actions[k].key,
                FileChange(DELETE, Some(ObjGet(orig, actions[k].key)), NULL, NULL))])
    ELSE IF actions[k].val.type = ADD
    THEN CommitLoop(actions, orig, k + 1,
            [s EXCEPT !.changes = ObjSet(@, actions[k].key,
                FileChange(ADD, NULL, actions[k].val.new_file, NULL))])
    ELSE CommitUpdate(actions, orig, k, s,
            getUpdatedFile(ObjGet(orig, actions[k].key), actions[k].val, actions[k].key))

\* patch_to_commit(patch, orig): [err, changes]
patch_to_commit(actions, orig) ==
    CommitLoop(actions, orig, 1, [err |-> NULL, changes |-> <<>>])

\* the UTF-16 code unit of a character of a path: Array.prototype.sort
\* without a comparator orders strings by code units
CodeUnit(c) == IF IsDigit(c) THEN 48 + DigitVal(c) ELSE IF c = "B" THEN 66 ELSE IF c = "a" THEN 97 ELSE 98

\* a < b as sort() compares strings
RECURSIVE StrLess(_, _)
StrLess(a, b) ==
    IF b = <<>> THEN FALSE
    ELSE IF a = <<>> THEN TRUE
    ELSE IF a[1] # b[1] THEN CodeUnit(a[1]) < CodeUnit(b[1])
    ELSE StrLess(Tail(a), Tail(b))

\* keys.sort(), the keys being distinct
RECURSIVE SortKeys(_)
SortKeys(keys) ==
    IF keys = <<>> THEN <<>>
    ELSE LET least == CHOOSE i \in 1..Len(keys) : \A j \in 1..Len(keys) : ~StrLess(keys[j], keys[i])
         IN  <<keys[least]>> \o SortKeys(SubSeq(keys, 1, least - 1) \o SubSeq(keys, least + 1, Len(keys)))

\* Array.from(new Set([...a, ...b])), b from its element i on
RECURSIVE UnionKeys(_, _, _)
UnionKeys(a, b, i) == IF i > Len(b) THEN a ELSE UnionKeys(SetAdd(a, b[i]), b, i + 1)

\* getOrNull(obj, key): null for a key that is absent, null or undefined
getOrNull(obj, key) == IF hasOwn(obj, key) THEN ObjGet(obj, key) ELSE NULL

\* a faulty body of the loop that records an Update whenever both contents
\* are present, equal or not
AssembleStepNoCompare(s, path, old_content, new_content) ==
    IF old_content # NULL /\ new_content # NULL
    THEN [s EXCEPT !.changes = ObjSet(@, path, FileChange(UPDATE, old_content, new_content, NULL))]
    ELSE IF old_content = new_content THEN s
    ELSE IF new_content # NULL
    THEN [s EXCEPT !.changes = ObjSet(@, path, FileChange(ADD, NULL, new_content, NULL))]
    ELSE [s EXCEPT !.changes = ObjSet(@, path, FileChange(DELETE, old_content, NULL, NULL))]

\* the body of the loop of assemble_changes for one path; s = [err, changes]
AssembleStep(s, path, old_content, new_content) ==
    IF old_content = new_content THEN s
    ELSE IF old_content # NULL /\ new_content # NULL
    THEN [s EXCEPT !.changes = ObjSet(@, path, FileChange(UPDATE, old_content, new_content, NULL))]
    ELSE IF new_content # NULL /\ new_content # Some(<<>>)
    THEN [s EXCEPT !.changes = ObjSet(@, path, FileChange(ADD, NULL, new_content, NULL))]
    ELSE IF old_content # NULL /\ old_content # Some(<<>>)
    THEN [s EXCEPT !.changes = ObjSet(@, path, FileChange(DELETE, old_content, NULL, NULL))]
    ELSE [s EXCEPT !.err = Some(AssertFail(<<>>))]

\* the loop of assemble_changes over allPaths, which ends when pyAssert throws
RECURSIVE AssembleLoop(_, _, _, _, _)
AssembleLoop(orig, dest, allPaths, k, s) ==
    IF k > Len(allPaths) \/ s.err # NULL THEN s
    ELSE AssembleLoop(orig, dest, allPaths, k + 1,
            AssembleStep(s, allPaths[k], getOrNull(orig, allPaths[k]), getOrNull(dest, allPaths[k])))

\* assemble_changes(orig, dest): [err, changes]; a value of a mapping is NULL
\* (null or undefined) or Some(string)
assemble_changes(orig, dest) ==
    AssembleLoop(orig, dest, SortKeys(UnionKeys(ObjKeys(orig), ObjKeys(dest), 1)), 1,
                 [err |-> NULL, changes |-> <<>>])

(* ------------------------ file system and I/O primitives ------------------------ *)

\* the segments of a path with "", "." and ".." resolved (POSIX path.resolve)
RECURSIVE NormSegments(_, _)
NormSegments(segs, acc) ==
    IF segs = <<>> THEN acc
    ELSE LET seg == Head(segs)
         IN  IF seg = <<>> \/ seg = <<".">> THEN NormSegments(Tail(segs), acc)
             ELSE IF seg = <<".", ".">>
             THEN NormSegments(Tail(segs),
                               IF acc = <<>> THEN acc ELSE SubSeq(acc, 1, Len(acc) - 1))
             ELSE NormSegments(Tail(segs), Append(acc, seg))

RECURSIVE JoinSegments(_)
JoinSegments(segs) ==
    IF segs = <<>> THEN <<>> ELSE <<"/">> \o Head(segs) \o JoinSegments(Tail(segs))

\* path.isAbsolute(p) / p.startsWith("/") on POSIX
IsAbsolute(p) == StartsWith(p, <<"/">>)

\* path.resolve(base, p) for an absolute base: the file the operating system
\* opens for p when the working directory is base
ResolvePath(base, p) ==
    LET full == IF IsAbsolute(p) THEN p ELSE base \o <<"/">> \o p
        segs == NormSegments(SplitChar(full, "/"), <<>>)
    IN  IF segs = <<>> THEN <<"/">> ELSE JoinSegments(segs)

\* the working directory of main and the workspace root of ApplyPatchTool
ROOT == <<"/", "w">>

IOError(path) == [cls |-> "Error", message |-> <<"E", "N", "O", "E", "N", "T", " ">> \o path]

FsHas(disk, file) == file \in DOMAIN disk

FsWrite(disk, file, content) ==
    [f \in DOMAIN disk \cup {file} |-> IF f = file THEN content ELSE disk[f]]

FsRemove(disk, file) == [f \in DOMAIN disk \ {file} |-> disk[f]]

\* open_file(path): [err, content]
open_file(disk, path) ==
    LET file == ResolvePath(ROOT, path)
    IN  IF path # <<>> /\ FsHas(disk, file)
        THEN [err |-> NULL, content |-> disk[file]]
        ELSE [err |-> Some(IOError(path)), content |-> <<>>]

\* write_file(path, content): [err, disk]
write_file(disk, path, content) ==
    IF StartsWith(path, <<"/">>) THEN [err |-> NULL, disk |-> disk]
    ELSE IF path = <<>> THEN [err |-> Some(IOError(path)), disk |-> disk]
    ELSE [err |-> NULL, disk |-> FsWrite(disk, ResolvePath(ROOT, path), content)]

\* remove_file(path): [err, disk]
remove_file(disk, path) ==
    LET file == ResolvePath(ROOT, path)
    IN  IF path # <<>> /\ FsHas(disk, file)
        THEN [err |-> NULL, disk |-> FsRemove(disk, file)]
        ELSE [err |-> Some(IOError(path)), disk |-> disk]

(* ------------------- the I/O functions of ApplyPatchTool ------------------- *)

\* input.replace(/\\/g, "/")
sanitizePatchPath(input) == [i \in 1..Len(input) |-> IF input[i] = "\\" THEN "/" ELSE input[i]]

\* isSubPath(target, base) off win32: a prefix test on the resolved paths
isSubPath(target, base) == StartsWith(ResolvePath(ROOT, target), ResolvePath(ROOT, base))

\* resolveRelative, once path.resolve(root, normalized) gave full
Resolved(relative, full) ==
    IF ~isSubPath(full, ROOT)
    THEN [err |-> Some(DiffError(MSG_PathEscapes \o relative)), full |-> full]
    ELSE [err |-> NULL, full |-> full]

\* resolveRelative(relative): [err, full]
resolveRelative(relative) ==
    Resolved(relative, ResolvePath(ROOT, sanitizePatchPath(Trim(relative))))

\* openFn(relative), r the result of resolveRelative: [err, content]
openFn(disk, r) ==
    IF r.err # NULL THEN [err |-> r.err, content |-> <<>>]
    ELSE IF FsHas(disk, r.full) THEN [err |-> NULL, content |-> disk[r.full]]
    ELSE [err |-> Some(IOError(r.full)), content |-> <<>>]

\* writeFn past the test for an absolute path, r the result of resolveRelative;
\* the workspace root is a directory and cannot be written as a file
WriteResolved(disk, r, content) ==
    IF r.err # NULL THEN [err |-> r.err, disk |-> disk]
    ELSE IF r.full = ROOT THEN [err |-> Some(IOError(r.full)), disk |-> disk]
    ELSE [err |-> NULL, disk |-> FsWrite(disk, r.full, content)]

\* a faulty writeFn that resolves every path, absolute or not, and so rejects
\* an absolute path outside the workspace: the no-op rule must tell it from writeFn
writeFnResolvesAll(disk, relative, content) ==
    WriteResolved(disk, resolveRelative(relative), content)

\* writeFn(relative, content): [err, disk]
writeFn(disk, relative, content) ==
    IF IsAbsolute(relative) THEN [err |-> NULL, disk |-> disk]
    ELSE WriteResolved(disk, resolveRelative(relative), content)

\* removeFn(relative), r the result of resolveRelative: [err, disk]
removeFn(disk, r) ==
    IF r.err # NULL THEN [err |-> r.err, disk |-> disk]
    ELSE IF FsHas(disk, r.full) THEN [err |-> NULL, disk |-> FsRemove(disk, r.full)]
    ELSE [err |-> Some(IOError(r.full)), disk |-> disk]

(* ------------------------------ the inputs ------------------------------ *)

\* bounds of the model
MaxSections == 2

MaxHunkLines == 3

\* all sequences over S of length at most n
RECURSIVE SeqsUpTo(_, _)
SeqsUpTo(S, n) ==
    IF n = 0 THEN {<<>>}
    ELSE LET shorter == SeqsUpTo(S, n - 1)
         IN  shorter \cup {Append(s, x) : s \in {t \in shorter : Len(t) = n - 1}, x \in S}

RECURSIVE Flatten(_)
Flatten(ss) == IF ss = <<>> THEN <<>> ELSE Head(ss) \o Flatten(Tail(ss))

PathA == <<"a">>

PathB == <<"b">>

\* hunk body and anchor lines of the patch texts
HunkLines ==
    { <<" ", "x">>, <<"-", "x">>, <<"+", "z">>, <<" ", "y">>, AT_AT }

\* sections of one or two lines that exercise every header
SectionPool ==
    { << ADD_FILE \o PathB, <<"+", "x">>, <<"+", "y">> >>,
      << ADD_FILE \o PathB >>,
      << ADD_FILE \o PathA, <<"x">> >>,
      << DELETE_FILE \o PathA >>,
      << DELETE_FILE \o PathB >>,
      << UPDATE_FILE \o PathA, <<"-", "x">>, <<"+", "z">> >>,
      << UPDATE_FILE \o PathA, MOVE_TO \o PathB, <<" ", "x">> >>,
      << UPDATE_FILE \o PathA, MOVE_TO \o PathA, <<"-", "x">>, <<"+", "z">> >>,
      << UPDATE_FILE \o PathA, MOVE_TO \o <<"/", "c">>, <<" ", "x">> >>,
      << DELETE_FILE \o <<".", ".", "/", "c">> >>,
      << ADD_FILE \o <<".", ".", "/", "c">>, <<"+", "x">> >>,
      << ADD_FILE \o <<"1">>, <<"+", "y">> >>,
      << <<"?">> >> }

\* Begin Patch, up to MaxSections sections, End Patch
SectionTexts ==
    { <<BEGIN_PATCH>> \o Flatten(ss) \o <<END_PATCH>> : ss \in SeqsUpTo(SectionPool, MaxSections) }

\* one Update section over a.txt with up to MaxHunkLines body lines, with or
\* without the end-of-file marker
HunkTexts ==
    { <<BEGIN_PATCH, UPDATE_FILE \o PathA>> \o body \o tail \o <<END_PATCH>> :
        body \in SeqsUpTo(HunkLines, MaxHunkLines), tail \in {<<>>, <<END_OF_FILE>>} }

\* texts that break the envelope
BrokenTexts ==
    { <<>>,
      << <<" ">> \o BEGIN_PATCH, END_PATCH >>,
      << DELETE_FILE \o PathA, END_PATCH >>,
      << BEGIN_PATCH >>,
      << BEGIN_PATCH, DELETE_FILE \o PathA >>,
      << BEGIN_PATCH, DELETE_FILE \o PathA, END_PATCH, <<>> >>,
      << BEGIN_PATCH, END_PATCH \o <<"!">>, END_PATCH >>,
      << BEGIN_PATCH \o <<"!">>, DELETE_FILE \o PathA, END_PATCH >>,
      << BEGIN_PATCH, ADD_FILE \o PathB, <<"+", "x">>, END_PATCH \o <<"!">>,
         DELETE_FILE \o PathA, END_PATCH >> }

\* an Add File section whose path leaves the working directory for a
\* directory whose name begins with the name of the working directory
SiblingTexts ==
    { << BEGIN_PATCH, ADD_FILE \o <<".", ".", "/", "w", "2", "/", "c">>, <<"+", "x">>,
         END_PATCH >> }

Texts == { Join(ls) : ls \in SectionTexts \cup HunkTexts \cup BrokenTexts \cup SiblingTexts }

FileA == ROOT \o <<"/">> \o PathA

FileB == ROOT \o <<"/">> \o PathB

\* contents of a: the second has the line x with trailing space, which only
\* the second pass of the matcher equates with x
ContentsA ==
    { Join(<< <<"x">>, <<"y">>, <<"x">> >>),
      Join(<< <<"x", " ">>, <<"y">>, <<"x">> >>),
      Join(<< <<"x">>, <<"y">> >>) }

NoFiles == [f \in {} |-> <<>>]

Disks ==
    { NoFiles }
    \cup { [f \in {FileA} |-> c] : c \in ContentsA }
    \cup { [f \in {FileA, FileB} |-> IF f = FileA THEN c ELSE <<"y">>] :
              c \in { Join(<< <<"x">>, <<"y">>, <<"x">> >>) } }

\* the end-to-end examples: a.txt, b.txt and their lines
A_TXT == <<"a",".","t","x","t">>

B_TXT == <<"b",".","t","x","t">>

LINE1 == <<"l","i","n","e","1">>

LINE2 == <<"l","i","n","e","2">>

LINE2B == <<"l","i","n","e","2","b">>

LINE3 == <<"l","i","n","e","3">>

HELLO == <<"h","e","l","l","o">>

WORLD == <<"w","o","r","l","d">>

Line123 == [f \in {ROOT \o <<"/">> \o A_TXT} |-> Join(<<LINE1, LINE2, LINE3>>)]

Example(ls, dsk) == [text |-> Join(<<BEGIN_PATCH>> \o ls \o <<END_PATCH>>), disk |-> dsk]

ExampleAdd == Example(<<ADD_FILE \o A_TXT, <<"+">> \o HELLO, <<"+">> \o WORLD>>, NoFiles)

ExampleUpdate ==
    Example(<<UPDATE_FILE \o A_TXT, <<" ">> \o LINE1, <<"-">> \o LINE2, <<"+">> \o LINE2B,
              <<" ">> \o LINE3>>, Line123)

ExampleMove == Example(<<UPDATE_FILE \o A_TXT, MOVE_TO \o B_TXT, <<" ">> \o LINE1>>, Line123)

Examples == {ExampleAdd, ExampleUpdate, ExampleMove}

Drivers == {"main", "invoke"}

(* ----------------------------- the state machine ----------------------------- *)

VARIABLES
    text,      \* the patch text handed to the driver
    driver,    \* "main" or "invoke"
    disk,      \* the files: resolved path -> content
    pc,        \* position of the run
    paths,     \* identify_files_needed(text)
    orig,      \* load_files: the originals read so far
    lines,     \* Parser.lines
    index,     \* Parser.index
    patch,     \* Parser.patch.actions
    fuzz,      \* Parser.fuzz
    upd,       \* the Update section being read by parse_update_file, or NULL
    hunk,      \* the locals of the last iteration of parse_update_file, or NULL
    commit,    \* commit.changes
    ci,        \* apply_commit: number of entries done
    moved,     \* apply_commit: the write of the current move entry has returned
    calls,     \* every call of open_fn, write_fn and remove_fn, in order
    outcome,   \* how process_patch ended
    output,    \* what the driver yields
    fcall,     \* a call of one function on its own: its name and arguments
    fret       \* the result of that call

vars == <<text, driver, disk, pc, paths, orig, lines, index, patch, fuzz, upd, hunk,
          commit, ci, moved, calls, outcome, output, fcall, fret>>

\* the variables of the Parser
parser == <<lines, index, patch, fuzz, upd, hunk>>

\* the variables of apply_commit
applier == <<commit, ci, moved>>

\* the call of one function on its own
unit == <<fcall, fret>>

Running == [status |-> "running", cls |-> "", message |-> <<>>]

Returned(value) == [status |-> "returned", cls |-> "", message |-> value]

Raised(e) == [status |-> "raised", cls |-> e.cls, message |-> e.message]

Call(op, path, content, entry, ok) ==
    [op |-> op, path |-> path, content |-> content, entry |-> entry, ok |-> ok]

Init ==
    /\ \/ /\ text \in Texts
          /\ disk \in Disks
       \/ \E e \in Examples :
             /\ text = e.text
             /\ disk = e.disk
    /\ driver \in Drivers
    /\ pc = "start"
    /\ paths = <<>>
    /\ orig = <<>>
    /\ lines = <<>>
    /\ index = 0
    /\ patch = <<>>
    /\ fuzz = 0
    /\ upd = NULL
    /\ hunk = NULL
    /\ commit = <<>>
    /\ ci = 0
    /\ moved = FALSE
    /\ calls = <<>>
    /\ outcome = Running
    /\ output = Running
    /\ fcall = NULL
    /\ fret = NULL

\* the injected functions of the driver d: those of main are the default
\* I/O functions, those of invoke are built by applyPatchToWorkspace
open_fn(d, dsk, path) ==
    IF d = "main" THEN open_file(dsk, path) ELSE openFn(dsk, resolveRelative(path))

write_fn(d, dsk, path, content) ==
    IF d = "main" THEN write_file(dsk, path, content) ELSE writeFn(dsk, path, content)

remove_fn(d, dsk, path) ==
    IF d = "main" THEN remove_file(dsk, path) ELSE removeFn(dsk, resolveRelative(path))

\* process_patch ends by raising e
Raise(e) ==
    /\ pc' = "ended"
    /\ outcome' = Raised(e)

\* process_patch without the pyAssert on the text
StartNoAssert ==
    /\ pc = "start"
    /\ text # <<>>
    /\ paths' = identify_files_needed(text)
    /\ pc' = "load"
    /\ UNCHANGED <<text, driver, disk, orig, parser, applier, calls, outcome, output, unit>>

\* process_patch: the pyAssert on the text and identify_files_needed
Start ==
    /\ pc = "start"
    /\ text # <<>>
    /\ IF ~StartsWith(text, BEGIN_PATCH)
       THEN /\ Raise(AssertFail(<<>>))
            /\ UNCHANGED paths
       ELSE /\ paths' = identify_files_needed(text)
            /\ pc' = "load"
            /\ UNCHANGED outcome
    /\ UNCHANGED <<text, driver, disk, orig, parser, applier, calls, output, unit>>

\* load_files: the open_fn call for filePath returned or raised r
Loaded(filePath, r) ==
    /\ calls' = Append(calls, Call("read", filePath, <<>>, 0, r.err = NULL))
    /\ IF r.err # NULL
       THEN /\ Raise(r.err[1])
            /\ UNCHANGED orig
       ELSE /\ orig' = ObjSet(orig, filePath, r.content)
            /\ UNCHANGED <<pc, outcome>>

\* load_files: one open_fn call
LoadFile ==
    /\ pc = "load"
    /\ Len(orig) < Len(paths)
    /\ Loaded(paths[Len(orig) + 1], open_fn(driver, disk, paths[Len(orig) + 1]))
    /\ UNCHANGED <<text, driver, disk, paths, parser, applier, output, unit>>

\* text_to_patch on the lines ls of the trimmed text, up to the construction
\* of the Parser
Envelope(ls) ==
    IF InvalidPatchText(ls)
    THEN /\ Raise(DiffError(MSG_InvalidPatchText))
         /\ UNCHANGED <<lines, index>>
    ELSE /\ lines' = ls
         /\ index' = 1
         /\ pc' = "parse"
         /\ UNCHANGED outcome

TextToPatch ==
    /\ pc = "load"
    /\ Len(orig) = Len(paths)
    /\ Envelope(Split(Trim(text)))
    /\ UNCHANGED <<text, driver, disk, paths, orig, patch, fuzz, upd, hunk, applier, calls,
                   output, unit>>

\* a faulty Parser that records the error of a section and lets the sections
\* parsed so far be committed and applied
ParsedDefersError(branch, r) ==
    /\ r.branch = branch
    /\ index' = r.index
    /\ IF r.err # NULL
       THEN /\ pc' = "commit"
            /\ outcome' = Raised(r.err[1])
            /\ UNCHANGED <<patch, fuzz, upd>>
       ELSE /\ patch' = r.actions
            /\ fuzz' = r.fuzz
            /\ upd' = r.upd
            /\ UNCHANGED <<pc, outcome>>

\* the Parser after one iteration of the loop of Parser.parse gave r
Parsed(branch, r) ==
    /\ r.branch = branch
    /\ index' = r.index
    /\ IF r.err # NULL
       THEN /\ Raise(r.err[1])
            /\ UNCHANGED <<patch, fuzz, upd>>
       ELSE /\ patch' = r.actions
            /\ fuzz' = r.fuzz
            /\ upd' = r.upd
            /\ UNCHANGED <<pc, outcome>>

\* Parser.parse: one iteration that reads an Update File header and enters
\* parse_update_file
ParseUpdate ==
    /\ pc = "parse"
    /\ upd = NULL
    /\ ~is_done(lines, index, {END_PATCH})
    /\ Parsed("update", ParseSection(lines, index, patch, fuzz, orig))
    /\ UNCHANGED <<text, driver, disk, paths, orig, lines, hunk, applier, calls, output, unit>>

\* Parser.parse: one iteration that reads a Delete File section
ParseDelete ==
    /\ pc = "parse"
    /\ upd = NULL
    /\ ~is_done(lines, index, {END_PATCH})
    /\ Parsed("delete", ParseSection(lines, index, patch, fuzz, orig))
    /\ UNCHANGED <<text, driver, disk, paths, orig, lines, hunk, applier, calls, output, unit>>

\* Parser.parse: one iteration that reads an Add File section
ParseAdd ==
    /\ pc = "parse"
    /\ upd = NULL
    /\ ~is_done(lines, index, {END_PATCH})
    /\ Parsed("add", ParseSection(lines, index, patch, fuzz, orig))
    /\ UNCHANGED <<text, driver, disk, paths, orig, lines, hunk, applier, calls, output, unit>>

\* Parser.parse: one iteration that finds no header and throws Unknown Line
ParseUnknown ==
    /\ pc = "parse"
    /\ upd = NULL
    /\ ~is_done(lines, index, {END_PATCH})
    /\ Parsed("unknown", ParseSection(lines, index, patch, fuzz, orig))
    /\ UNCHANGED <<text, driver, disk, paths, orig, lines, hunk, applier, calls, output, unit>>

\* the Parser after one iteration of the loop of parse_update_file gave r
HunkParsed(r) ==
    /\ index' = r.index
    /\ fuzz' = r.fuzz
    /\ hunk' = r.hunk
    /\ IF r.err # NULL
       THEN /\ Raise(r.err[1])
            /\ UNCHANGED upd
       ELSE /\ upd' = Some([upd[1] EXCEPT !.idx = r.idx, !.chunks = r.chunks])
            /\ UNCHANGED <<pc, outcome>>

\* Parser.parse_update_file: one iteration of its loop, one hunk
ParseHunk ==
    /\ pc = "parse"
    /\ upd # NULL
    /\ ~is_done(lines, index, UpdatePrefixes)
    /\ HunkParsed(HunkStep(lines, upd[1].lines,
                           [index |-> index, idx |-> upd[1].idx, chunks |-> upd[1].chunks,
                            fuzz |-> fuzz]))
    /\ UNCHANGED <<text, driver, disk, paths, orig, lines, patch, applier, calls, output, unit>>

\* Parser.parse_update_file returns and Parser.parse records the action
\* under its path with its move_path
ParseUpdateEnd ==
    /\ pc = "parse"
    /\ upd # NULL
    /\ is_done(lines, index, UpdatePrefixes)
    /\ patch' = ObjSet(patch, upd[1].path,
                       PatchAction(UPDATE, NULL, upd[1].chunks, Some(upd[1].move_to)))
    /\ upd' = NULL
    /\ hunk' = NULL
    /\ UNCHANGED <<text, driver, disk, pc, paths, orig, lines, index, fuzz, applier, calls,
                   outcome, output, unit>>

\* Parser.parse after its loop gave r
Finished(r) ==
    /\ index' = r.index
    /\ IF r.err # NULL
       THEN Raise(r.err[1])
       ELSE /\ pc' = "commit"
            /\ UNCHANGED outcome

\* the end of Parser.parse and the return of text_to_patch
ParseFinish ==
    /\ pc = "parse"
    /\ upd = NULL
    /\ is_done(lines, index, {END_PATCH})
    /\ Finished(ParseEnd(lines, index))
    /\ UNCHANGED <<text, driver, disk, paths, orig, lines, patch, fuzz, upd, hunk, applier,
                   calls, output, unit>>

\* process_patch after patch_to_commit gave r
Committed(r) ==
    IF r.err # NULL
    THEN /\ Raise(r.err[1])
         /\ UNCHANGED commit
    ELSE /\ commit' = r.changes
         /\ pc' = "apply"
         /\ UNCHANGED outcome

\* patch_to_commit
PatchToCommit ==
    /\ pc = "commit"
    /\ Committed(patch_to_commit(patch, orig))
    /\ UNCHANGED <<text, driver, disk, paths, orig, parser, ci, moved, calls, output, unit>>

\* `if (change.move_path)`: neither null nor the empty string
HasMove(change) == change.move_path # NULL /\ change.move_path # Some(<<>>)

Effect(op, path, content) == [op |-> op, path |-> path, content |-> content]

\* a faulty apply_commit that empties a deleted file instead of removing it
EffectOfDeleteAsWrite(filePath, change, afterWrite) ==
    IF change.type = DELETE THEN Effect("write", filePath, <<>>)
    ELSE IF change.type = ADD THEN Effect("write", filePath, change.new_content[1])
    ELSE IF ~HasMove(change) THEN Effect("write", filePath, change.new_content[1])
    ELSE IF afterWrite THEN Effect("remove", filePath, <<>>)
    ELSE Effect("write", change.move_path[1], change.new_content[1])

\* the call apply_commit makes next for the entry filePath: change
EffectOf(filePath, change, afterWrite) ==
    IF change.type = DELETE THEN Effect("remove", filePath, <<>>)
    ELSE IF change.type = ADD THEN Effect("write", filePath, change.new_content[1])
    ELSE IF ~HasMove(change) THEN Effect("write", filePath, change.new_content[1])
    ELSE IF afterWrite THEN Effect("remove", filePath, <<>>)
    ELSE Effect("write", change.move_path[1], change.new_content[1])

NextEffect == EffectOf(commit[ci + 1].key, commit[ci + 1].val, moved)

\* the branch of apply_commit the entry takes next
EffectKind(change, afterWrite) ==
    IF change.type = UPDATE /\ HasMove(change)
    THEN (IF afterWrite THEN "move-remove" ELSE "move-write")
    ELSE change.type

\* the injected function for effect e
Perform(d, dsk, e) ==
    IF e.op = "write" THEN write_fn(d, dsk, e.path, e.content)
    ELSE remove_fn(d, dsk, e.path)

\* a faulty apply_commit that swallows the error of a call and goes on with
\* the next entry
PerformedGoesOn(e, r, last) ==
    /\ calls' = Append(calls, Call(e.op, e.path, e.content, ci + 1, r.err = NULL))
    /\ disk' = r.disk
    /\ ci' = IF last \/ r.err # NULL THEN ci + 1 ELSE ci
    /\ moved' = (~last /\ r.err = NULL)
    /\ UNCHANGED <<pc, outcome>>

\* the call e returned or raised r; last tells whether it ends the entry
Performed(e, r, last) ==
    /\ calls' = Append(calls, Call(e.op, e.path, e.content, ci + 1, r.err = NULL))
    /\ disk' = r.disk
    /\ IF r.err # NULL
       THEN /\ Raise(r.err[1])
            /\ UNCHANGED <<ci, moved>>
       ELSE /\ ci' = IF last THEN ci + 1 ELSE ci
            /\ moved' = ~last
            /\ UNCHANGED <<pc, outcome>>

\* apply_commit, Delete entry: remove_fn(filePath)
ApplyDelete ==
    /\ pc = "apply"
    /\ ci < Len(commit)
    /\ EffectKind(commit[ci + 1].val, moved) = DELETE
    /\ Performed(NextEffect, Perform(driver, disk, NextEffect), TRUE)
    /\ UNCHANGED <<text, driver, paths, orig, parser, commit, output, unit>>

\* apply_commit, Add entry: write_fn(filePath, new_content)
ApplyAdd ==
    /\ pc = "apply"
    /\ ci < Len(commit)
    /\ EffectKind(commit[ci + 1].val, moved) = ADD
    /\ Performed(NextEffect, Perform(driver, disk, NextEffect), TRUE)
    /\ UNCHANGED <<text, driver, paths, orig, parser, commit, output, unit>>

\* apply_commit, Update entry without move: write_fn(filePath, new_content)
ApplyUpdate ==
    /\ pc = "apply"
    /\ ci < Len(commit)
    /\ EffectKind(commit[ci + 1].val, moved) = UPDATE
    /\ Performed(NextEffect, Perform(driver, disk, NextEffect), TRUE)
    /\ UNCHANGED <<text, driver, paths, orig, parser, commit, output, unit>>

\* apply_commit, Update entry with move: write_fn(move_path, new_content)
ApplyMoveWrite ==
    /\ pc = "apply"
    /\ ci < Len(commit)
    /\ EffectKind(commit[ci + 1].val, moved) = "move-write"
    /\ Performed(NextEffect, Perform(driver, disk, NextEffect), FALSE)
    /\ UNCHANGED <<text, driver, paths, orig, parser, commit, output, unit>>

\* apply_commit, Update entry with move: remove_fn(filePath) after the write
ApplyMoveRemove ==
    /\ pc = "apply"
    /\ ci < Len(commit)
    /\ EffectKind(commit[ci + 1].val, moved) = "move-remove"
    /\ Performed(NextEffect, Perform(driver, disk, NextEffect), TRUE)
    /\ UNCHANGED <<text, driver, paths, orig, parser, commit, output, unit>>

\* the environment makes the pending write or remove fail: it raises and
\* changes no file; a write to an absolute path returns before any I/O and
\* cannot fail, and resolveRelative rejects a path before any I/O
IOFault ==
    /\ pc = "apply"
    /\ ci < Len(commit)
    /\ ~(NextEffect.op = "write" /\ IsAbsolute(NextEffect.path))
    /\ driver # "main" => resolveRelative(NextEffect.path).err = NULL
    /\ calls' = Append(calls, Call(NextEffect.op, NextEffect.path, NextEffect.content,
                                   ci + 1, FALSE))
    /\ Raise(IOError(NextEffect.path))
    /\ UNCHANGED <<text, driver, disk, paths, orig, parser, applier, output, unit>>

\* apply_commit is through and process_patch returns "Done!"
ProcessReturn ==
    /\ pc = "apply"
    /\ ci = Len(commit)
    /\ pc' = "ended"
    /\ outcome' = Returned(DONE)
    /\ UNCHANGED <<text, driver, disk, paths, orig, parser, applier, calls, output, unit>>

Yielded(message) == [status |-> "yielded", cls |-> "", message |-> message]

Thrown(o) == [status |-> "thrown", cls |-> o.cls, message |-> o.message]

\* the try/catch around process_patch in main: o is how process_patch ended
MainResult(o) ==
    IF o.status = "returned" THEN Yielded(o.message)
    ELSE IF o.cls = "DiffError" THEN Yielded(o.message)
    ELSE Thrown(o)

\* invoke rendering every error as "Failed: " and its message
InvokeResultFailed(o) ==
    IF o.status = "returned" THEN Yielded(o.message) ELSE Yielded(MSG_Failed \o o.message)

\* the try/catch around applyPatchToWorkspace in ApplyPatchTool.invoke
InvokeResult(o) ==
    IF o.status = "returned" THEN Yielded(o.message)
    ELSE IF o.cls = "DiffError" THEN Yielded(o.message)
    ELSE Thrown(o)

\* main prints the result of process_patch or the message of its DiffError
MainExit ==
    /\ pc = "ended"
    /\ driver = "main"
    /\ pc' = "exit"
    /\ output' = MainResult(outcome)
    /\ UNCHANGED <<text, driver, disk, paths, orig, parser, applier, calls, outcome, unit>>

\* invoke returns the result of process_patch or the message of its DiffError
InvokeExit ==
    /\ pc = "ended"
    /\ driver = "invoke"
    /\ pc' = "exit"
    /\ output' = InvokeResult(outcome)
    /\ UNCHANGED <<text, driver, disk, paths, orig, parser, applier, calls, outcome, unit>>

\* main with nothing on stdin: process_patch is not called
NoInput ==
    /\ pc = "start"
    /\ driver = "main"
    /\ text = <<>>
    /\ pc' = "exit"
    /\ output' = Yielded(MSG_NoInput)
    /\ UNCHANGED <<text, driver, disk, paths, orig, parser, applier, calls, outcome, unit>>

\* invoke with an empty patch: the input schema rejects it and
\* process_patch is not called; the text after "Failed: " is the validator's
InvalidInput ==
    /\ pc = "start"
    /\ driver = "invoke"
    /\ text = <<>>
    /\ pc' = "exit"
    /\ output' = Yielded(MSG_Failed)
    /\ UNCHANGED <<text, driver, disk, paths, orig, parser, applier, calls, outcome, unit>>

Next ==
    \/ Start
    \/ NoInput
    \/ InvalidInput
    \/ LoadFile
    \/ TextToPatch
    \/ ParseUpdate
    \/ ParseDelete
    \/ ParseAdd
    \/ ParseUnknown
    \/ ParseHunk
    \/ ParseUpdateEnd
    \/ ParseFinish
    \/ PatchToCommit
    \/ ApplyDelete
    \/ ApplyAdd
    \/ ApplyUpdate
    \/ ApplyMoveWrite
    \/ ApplyMoveRemove
    \/ IOFault
    \/ ProcessReturn
    \/ MainExit
    \/ InvokeExit

Spec == Init /\ [][Next]_vars

(* ------------------- the ShellTool apply_patch interception ------------------- *)

OUTPUT_TAIL_LINES == 10

OUTPUT_TAIL_CHARS == 2000

MSG_Success == <<"S","u","c","c","e","s","s","."," ">>
MSG_ExitUnknown == <<" ","u","n","k","n","o","w","n">>
MSG_Tail == <<"T","a","i","l",":","\n">>
MSG_NoOutput == <<"(","n","o"," ","o","u","t","p","u","t",")">>
MSG_FailedExit == <<"F","a","i","l","e","d"," ","(">>
MSG_FailedTimeout == <<"F","a","i","l","e","d",":"," ","t","i","m","e","o","u","t"," ","a","f","t","e","r"," ">>
MSG_FailedCancelled == <<"F","a","i","l","e","d",":"," ","c","o","m","m","a","n","d"," ","c","a","n","c","e","l","l","e","d",".">>
MSG_LastOutput == <<" ","L","a","s","t"," ","o","u","t","p","u","t",":","\n">>
MSG_Command == <<"\n","C","o","m","m","a","n","d",":"," ">>
MSG_Workdir == <<"\n","W","o","r","k","d","i","r",":"," ">>
MSG_Warnings == <<"\n","W","a","r","n","i","n","g","s",":","\n">>

\* the last n elements of s: s.slice(-n)
LastOf(s, n) == IF Len(s) <= n THEN s ELSE SubSeq(s, Len(s) - n + 1, Len(s))

\* tailSnippet(t): the last lines of the trimmed output, cut to the last
\* OUTPUT_TAIL_CHARS characters
tailSnippet(t) ==
    IF Trim(t) = <<>> THEN <<>>
    ELSE LastOf(Join(LastOf(Split(Trim(t)), OUTPUT_TAIL_LINES)), OUTPUT_TAIL_CHARS)

\* withWarnings(message, warnings)
withWarnings(message, warnings) ==
    IF warnings = <<>> THEN message
    ELSE message \o MSG_Warnings
         \o Join([i \in 1..Len(warnings) |-> <<"-", " ">> \o warnings[i]])

\* a CommandRunResult; exitCode is a number or NULL
CommandRunResult(success, exitCode, timedOut, cancelled, stdout, stderr) ==
    [success |-> success, exitCode |-> exitCode, timedOut |-> timedOut,
     cancelled |-> cancelled, stdout |-> stdout, stderr |-> stderr]

\* `${snippet ? ` Last output:\n${snippet}` : ""}`
LastOutput(snippet) == IF snippet = <<>> THEN <<>> ELSE MSG_LastOutput \o snippet

\* "exit <code>" or "exit unknown", after the word as it is spelt
ExitInfo(word, exitCode) ==
    IF exitCode = NULL THEN word \o MSG_ExitUnknown ELSE word \o <<" ">> \o Dec(exitCode[1])

\* "\nCommand: <command joined by blanks>\nWorkdir: <workdir>"
CommandAndWorkdir(preview, workdir) == MSG_Command \o preview \o MSG_Workdir \o workdir

\* formatCommandSummary(command, workdir, result, warnings, timeoutMs),
\* preview being formatCommandPreview(command)
formatCommandSummary(preview, workdir, result, warnings, timeoutMs) ==
    IF result.timedOut
    THEN withWarnings(MSG_FailedTimeout \o Dec(timeoutMs) \o <<" ", "m", "s", ".">>
                      \o LastOutput(tailSnippet(IF result.stdout # <<>> THEN result.stdout
                                                ELSE result.stderr))
                      \o CommandAndWorkdir(preview, workdir), warnings)
    ELSE IF result.cancelled
    THEN withWarnings(MSG_FailedCancelled
                      \o LastOutput(tailSnippet(IF result.stdout # <<>> THEN result.stdout
                                                ELSE result.stderr))
                      \o CommandAndWorkdir(preview, workdir), warnings)
    ELSE IF ~result.success
    THEN withWarnings(MSG_FailedExit
                      \o ExitInfo(<<"e", "x", "i", "t">>, result.exitCode) \o <<")", ":", " ">>
                      \o (IF tailSnippet(IF result.stdout # <<>> THEN result.stdout
                                         ELSE result.stderr) = <<>>
                          THEN MSG_NoOutput
                          ELSE tailSnippet(IF result.stdout # <<>> THEN result.stdout
                                           ELSE result.stderr))
                      \o CommandAndWorkdir(preview, workdir), warnings)
    ELSE withWarnings(MSG_Success \o ExitInfo(<<"E", "x", "i", "t">>, result.exitCode)
                      \o <<".", " ">>
                      \o (IF tailSnippet(IF result.stdout # <<>> THEN result.stdout
                                         ELSE result.stderr) = <<>>
                          THEN MSG_NoOutput
                          ELSE MSG_Tail \o tailSnippet(IF result.stdout # <<>> THEN result.stdout
                                                       ELSE result.stderr))
                      \o CommandAndWorkdir(preview, workdir), warnings)

\* the command that hands the patch p to the shell tool: sh -c with a here
\* document, joined by blanks as formatCommandPreview does
PatchCommand(p) == <<"s","h"," ","-","c"," ","a","p","p","l","y","_","p","a","t","c","h"," ","<","<","P","\n">> \o p \o <<"\n","P">>

DEFAULT_TIMEOUT_MS == 60000

\* the try/catch around process_patch in the interception of ShellTool.invoke:
\* o is how process_patch ended, p the patch text
ShellResult(o, p) ==
    IF o.status = "returned"
    THEN Yielded(formatCommandSummary(PatchCommand(p), ROOT,
            CommandRunResult(TRUE, Some(0), FALSE, FALSE, o.message \o <<"\n">>, <<>>),
            <<>>, DEFAULT_TIMEOUT_MS))
    ELSE IF o.cls = "DiffError"
    THEN Yielded(formatCommandSummary(PatchCommand(p), ROOT,
            CommandRunResult(FALSE, Some(1), FALSE, FALSE, <<>>, o.message),
            <<>>, DEFAULT_TIMEOUT_MS))
    ELSE Yielded(MSG_Failed \o o.message)

\* the interception returns the summary of a command that printed the result
\* of process_patch, or of one that failed with the message of its error
ShellExit ==
    /\ pc = "ended"
    /\ driver = "shell"
    /\ pc' = "exit"
    /\ output' = ShellResult(outcome, text)
    /\ UNCHANGED <<text, driver, disk, paths, orig, parser, applier, calls, outcome, unit>>

\* ShellTool.invoke with a command that holds a patch in a here document
InitShell ==
    /\ \/ /\ text \in Texts \ {<<>>}
          /\ disk \in Disks
       \/ \E e \in Examples :
             /\ text = e.text
             /\ disk = e.disk
    /\ driver = "shell"
    /\ pc = "start"
    /\ paths = <<>>
    /\ orig = <<>>
    /\ lines = <<>>
    /\ index = 0
    /\ patch = <<>>
    /\ fuzz = 0
    /\ upd = NULL
    /\ hunk = NULL
    /\ commit = <<>>
    /\ ci = 0
    /\ moved = FALSE
    /\ calls = <<>>
    /\ outcome = Running
    /\ output = Running
    /\ fcall = NULL
    /\ fret = NULL

InitCallers == Init \/ InitShell

NextCallers == Next \/ ShellExit

\* process_patch under each of its three callers
SpecCallers == InitCallers /\ [][NextCallers]_vars

(* ------------------ find_context and getUpdatedFile on their own ------------------ *)

\* bounds of the calls
MaxLines == 3

MaxContext == 2

MaxChunks == 2

\* the variables of the run of a driver, while one function is called on its own
Idle ==
    /\ text = <<>>
    /\ driver = "main"
    /\ disk = NoFiles
    /\ pc = "call"
    /\ paths = <<>>
    /\ orig = <<>>
    /\ lines = <<>>
    /\ index = 0
    /\ patch = <<>>
    /\ fuzz = 0
    /\ upd = NULL
    /\ hunk = NULL
    /\ commit = <<>>
    /\ ci = 0
    /\ moved = FALSE
    /\ calls = <<>>
    /\ outcome = Running
    /\ output = Running

run == <<text, driver, disk, pc, paths, orig, lines, index, patch, fuzz, upd, hunk,
         commit, ci, moved, calls, outcome, output>>

\* lines that the three passes of the matcher tell apart
MatcherLines == { <<"x">>, <<"x", " ">>, <<" ", "x">>, <<"y">> }

InitMatcher ==
    /\ Idle
    /\ \E ls \in SeqsUpTo(MatcherLines, MaxLines), c \in SeqsUpTo(MatcherLines, MaxContext),
          e \in BOOLEAN :
         \E st \in 0..Len(ls) :
            fcall = Some([lines |-> ls, context |-> c, start |-> st, eof |-> e])
    /\ fret = NULL

\* find_context(lines, context, start, eof) returns
FindContext ==
    /\ pc = "call"
    /\ fret = NULL
    /\ fret' = Some(find_context(fcall[1].lines, fcall[1].context, fcall[1].start,
                                 fcall[1].eof))
    /\ UNCHANGED <<run, fcall>>

NextMatcher == FindContext

SpecMatcher == InitMatcher /\ [][NextMatcher]_vars

\* chunks that delete a line, insert a line or replace a line
ChunkPool ==
    { Chunk(i, d, n) :
        i \in 0..(MaxLines + 1),
        d \in { <<>>, << <<"x">> >> },
        n \in { <<>>, << <<"z">> >> } }

InitApplier ==
    /\ Idle
    /\ \E ls \in SeqsUpTo({ <<"x">>, <<"y">> }, MaxLines), cs \in SeqsUpTo(ChunkPool, MaxChunks) :
         \E p \in {A_TXT, B_TXT} : fcall = Some([text |-> Join(ls), chunks |-> cs, path |-> p])
    /\ fret = NULL

\* getUpdatedFile(text, action, path) returns or throws
GetUpdatedFile ==
    /\ pc = "call"
    /\ fret = NULL
    /\ fret' = Some(getUpdatedFile(fcall[1].text,
                                   PatchAction(UPDATE, NULL, fcall[1].chunks, NULL),
                                   fcall[1].path))
    /\ UNCHANGED <<run, fcall>>

NextApplier == GetUpdatedFile

SpecApplier == InitApplier /\ [][NextApplier]_vars

\* bound of the mappings given to assemble_changes: their number of keys
MaxKeys == 2

\* the object that the entries es build, assigned one after the other
RECURSIVE FromEntries(_, _, _)
FromEntries(obj, es, i) ==
    IF i > Len(es) THEN obj ELSE FromEntries(ObjSet(obj, es[i].key, es[i].val), es, i + 1)

\* paths of the mappings: "10" sorts before "2", which Object.keys lists
\* first; b may be inserted before a
AssemblePaths == { <<"1", "0">>, <<"2">>, <<"a">>, <<"b">> }

\* contents of the mappings: null or undefined, "" and x
AssembleContents == { NULL, Some(<<>>), Some(<<"x">>) }

\* the entries es name each path once
DistinctKeys(es) == \A i, j \in 1..Len(es) : es[i].key = es[j].key => i = j

InitAssemble ==
    /\ Idle
    /\ \E a \in SeqsUpTo([key : AssemblePaths, val : AssembleContents], MaxKeys) :
         /\ DistinctKeys(a)
         /\ \E b \in SeqsUpTo([key : AssemblePaths, val : AssembleContents], MaxKeys) :
               /\ DistinctKeys(b)
               /\ fcall = Some([orig |-> FromEntries(<<>>, a, 1),
                                dest |-> FromEntries(<<>>, b, 1)])
    /\ fret = NULL

\* assemble_changes(orig, dest) returns or throws
AssembleChanges ==
    /\ pc = "call"
    /\ fret = NULL
    /\ fret' = Some(assemble_changes(fcall[1].orig, fcall[1].dest))
    /\ UNCHANGED <<run, fcall>>

NextAssemble == AssembleChanges

SpecAssemble == InitAssemble /\ [][NextAssemble]_vars

\* the originals given to text_to_patch when it is called on its own
Originals ==
    { <<>>, << [key |-> PathB, val |-> <<"y">>] >> }
    \cup { << [key |-> PathA, val |-> c] >> : c \in ContentsA }
    \cup { << [key |-> PathA, val |-> Join(<< <<"x">>, <<"y">>, <<"x">> >>)],
              [key |-> PathB, val |-> <<"y">>] >> }

\* hunk lines that exercise the structure of an Update section: anchors, the
\* end-of-file marker between hunks and the lone "***"
StructureLines ==
    HunkLines \cup { AT_AT_SP \o <<"x">>, END_OF_FILE, STARS }

\* hunk lines that differ from the file's lines in whitespace, anchors that
\* match after trimming or not at all, the blank line and lines no mode accepts
DriftLines ==
    { <<"-", "x">>, <<"-", " ", "x">>, <<"+", "z">>, <<>>, <<"?">>,
      STARS \o <<" ", "f">>, AT_AT_SP \o <<"x", " ">>, AT_AT_SP \o <<"q">> }

\* text_to_patch(text, orig) called on its own: the run starts where
\* load_files has returned orig
\* hunk bodies with empty lines and an anchor of one blank, for a file that
\* has an empty line
BlankLines == { <<" ", "x">>, <<>>, <<"-", "y">>, <<"+", "z">>, AT_AT_SP \o <<" ">> }

InitParser ==
    /\ \/ /\ text \in Texts
          /\ orig \in Originals
       \/ \E body \in SeqsUpTo(StructureLines, MaxHunkLines)
                         \cup SeqsUpTo(DriftLines, MaxHunkLines),
             tail \in {<<>>, <<END_OF_FILE>>}, c \in ContentsA :
             /\ text = Join(<<BEGIN_PATCH, UPDATE_FILE \o PathA>> \o body \o tail
                            \o <<END_PATCH>>)
             /\ orig = << [key |-> PathA, val |-> c] >>
       \/ \E body \in SeqsUpTo(BlankLines, MaxHunkLines), tail \in {<<>>, <<END_OF_FILE>>} :
             /\ text = Join(<<BEGIN_PATCH, UPDATE_FILE \o PathA>> \o body \o tail
                            \o <<END_PATCH>>)
             /\ orig = << [key |-> PathA, val |-> Join(<< <<"x">>, <<>>, <<"y">> >>)] >>
    /\ paths = ObjKeys(orig)
    /\ driver = "main"
    /\ disk = NoFiles
    /\ pc = "load"
    /\ lines = <<>>
    /\ index = 0
    /\ patch = <<>>
    /\ fuzz = 0
    /\ upd = NULL
    /\ hunk = NULL
    /\ commit = <<>>
    /\ ci = 0
    /\ moved = FALSE
    /\ calls = <<>>
    /\ outcome = Running
    /\ output = Running
    /\ fcall = NULL
    /\ fret = NULL

NextParser ==
    \/ TextToPatch
    \/ ParseUpdate
    \/ ParseDelete
    \/ ParseAdd
    \/ ParseUnknown
    \/ ParseHunk
    \/ ParseUpdateEnd
    \/ ParseFinish

SpecParser == InitParser /\ [][NextParser]_vars

(* -------------------------------- properties -------------------------------- *)

\* ls with the lines [orig_index, orig_index + |del_lines|) of chunk c replaced
\* by its ins_lines
Replace(ls, c) ==
    SubSeq(ls, 1, c.orig_index) \o c.ins_lines
    \o SubSeq(ls, c.orig_index + Len(c.del_lines) + 1, Len(ls))

\* ls with every chunk spliced in, the last chunk first so that the offsets
\* of the earlier ones still refer to the original
RECURSIVE SpliceAll(_, _)
SpliceAll(ls, chunks) ==
    IF chunks = <<>> THEN ls
    ELSE SpliceAll(Replace(ls, chunks[Len(chunks)]), SubSeq(chunks, 1, Len(chunks) - 1))

\* the content that entry k of the commit should have if it is an Update
Spliced(k) ==
    Join(SpliceAll(Split(ObjGet(orig, commit[k].key)), ObjGet(patch, commit[k].key).chunks))

\* C1: when every hunk matched exactly (fuzz = 0), the new content that
\* patch_to_commit gives an Update action is the original line sequence with,
\* for each chunk, the lines [orig_index, orig_index + |del_lines|) replaced by
\* ins_lines and every other line kept in order.
C1_UpdateSplicesChunks ==
    (pc \in {"apply", "ended", "exit"} /\ fuzz = 0)
        => \A k \in 1..Len(commit) :
              commit[k].val.type = UPDATE
                  => /\ commit[k].val.old_content = Some(ObjGet(orig, commit[k].key))
                     /\ commit[k].val.new_content = Some(Spliced(k))

\* the example: line1/line2/line3 with the hunk " line1", "-line2", "+line2b",
\* " line3" has become line1/line2b/line3
C1_Witness ==
    /\ pc = "apply"
    /\ fuzz = 0
    /\ Len(commit) = 1
    /\ commit[1].val.type = UPDATE
    /\ ObjGet(patch, commit[1].key).chunks = << Chunk(1, <<LINE2>>, <<LINE2B>>) >>
    /\ commit[1].val.old_content = Some(Join(<<LINE1, LINE2, LINE3>>))
    /\ commit[1].val.new_content = Some(Join(<<LINE1, LINE2B, LINE3>>))

\* the context of the call c stands at offset j of its lines, word for word
ExactAt(c, j) ==
    /\ j + Len(c.context) <= Len(c.lines)
    /\ SubSeq(c.lines, j + 1, j + Len(c.context)) = c.context

\* the context of the call c stands at offset j only once the white space at
\* the ends of the lines is stripped or trimmed on both sides
FuzzyAt(c, j) ==
    /\ j + Len(c.context) <= Len(c.lines)
    /\ SubSeq(c.lines, j + 1, j + Len(c.context)) # c.context
    /\ NormAll("trim", SubSeq(c.lines, j + 1, j + Len(c.context))) = NormAll("trim", c.context)

\* the context occurs at two offsets at or after the cursor, exactly at one
\* and only fuzzily at the other
TieBreakCase(c) ==
    /\ Len(c.context) > 0
    /\ \E j \in c.start..Len(c.lines) : ExactAt(c, j)
    /\ \E k \in c.start..Len(c.lines) : FuzzyAt(c, k)

\* find_context returned an exact occurrence at or after the cursor, penalty 0
ExactReturned(c, r) ==
    /\ r[2] = 0
    /\ r[1] >= c.start
    /\ ExactAt(c, r[1])

\* C2: for a hunk that is not EOF-anchored, when the context occurs at two
\* offsets at or after the cursor, exactly at one and only after stripping or
\* trimming white space at the other, find_context returns the exact
\* occurrence with penalty 0, even if it lies later than the fuzzy one.
C2_TieBreakPrefersExact ==
    (fret # NULL /\ ~fcall[1].eof /\ TieBreakCase(fcall[1]))
        => ExactReturned(fcall[1], fret[1])

\* C2 as stated, for every call of find_context, EOF-anchored or not
C2_TieBreakWithEof ==
    (fret # NULL /\ TieBreakCase(fcall[1])) => ExactReturned(fcall[1], fret[1])

\* the exact occurrence was returned although a fuzzy one precedes it
C2_Witness ==
    /\ fret # NULL
    /\ ~fcall[1].eof
    /\ Len(fcall[1].context) > 0
    /\ ExactReturned(fcall[1], fret[1])
    /\ \E k \in fcall[1].start..(fret[1][1] - 1) : FuzzyAt(fcall[1], k)

\* the lines ls end with the lines ctx, word for word
EndsWith(ls, ctx) ==
    /\ Len(ctx) <= Len(ls)
    /\ SubSeq(ls, Len(ls) - Len(ctx) + 1, Len(ls)) = ctx

\* the chunks that the last hunk appended to those of the Update section
LastChunks(u, h) ==
    SubSeq(u.chunks, Len(u.chunks) - Len(h.chunks) + 1, Len(u.chunks))

\* the chunks of the hunk h with their offsets counted from line `at` of the file
ChunksAt(h, at) ==
    [i \in 1..Len(h.chunks) |->
        Chunk(h.chunks[i].orig_index + at, h.chunks[i].del_lines, h.chunks[i].ins_lines)]

\* C3: a hunk that ends with "*** End of File" and whose context stands word
\* for word at the end of the file is resolved there, at offset
\* fileLineCount - contextLineCount, wherever else the context occurs: that
\* offset is returned with penalty 0 and the chunks are counted from it.
C3_EofAnchorsAtEnd ==
    (hunk # NULL /\ hunk[1].eof /\ EndsWith(upd[1].lines, hunk[1].context))
        => /\ hunk[1].newIndex = Len(upd[1].lines) - Len(hunk[1].context)
           /\ hunk[1].penalty = 0
           /\ LastChunks(upd[1], hunk[1])
                = ChunksAt(hunk[1], Len(upd[1].lines) - Len(hunk[1].context))

\* an EOF-anchored hunk with a chunk whose context also stands mid-file, at or
\* after the cursor, was resolved at the end of the file
C3_Witness ==
    /\ hunk # NULL
    /\ hunk[1].eof
    /\ Len(hunk[1].context) > 0
    /\ Len(hunk[1].chunks) > 0
    /\ EndsWith(upd[1].lines, hunk[1].context)
    /\ hunk[1].newIndex = Len(upd[1].lines) - Len(hunk[1].context)
    /\ \E j \in hunk[1].start..(hunk[1].newIndex - 1) :
          SubSeq(upd[1].lines, j + 1, j + Len(hunk[1].context)) = hunk[1].context

\* the path that a section header names; empty when the line is no header
HeaderPath(line) ==
    IF StartsWith(line, UPDATE_FILE) THEN SliceFrom(line, Len(UPDATE_FILE))
    ELSE IF StartsWith(line, DELETE_FILE) THEN SliceFrom(line, Len(DELETE_FILE))
    ELSE IF StartsWith(line, ADD_FILE) THEN SliceFrom(line, Len(ADD_FILE))
    ELSE <<>>

\* the Duplicate Path message of the section that the header line opens
DuplicateMessage(line) ==
    (IF StartsWith(line, UPDATE_FILE) THEN MSG_UpdateDup
     ELSE IF StartsWith(line, DELETE_FILE) THEN MSG_DeleteDup
     ELSE MSG_AddDup) \o HeaderPath(line)

\* Parser.parse is about to read the header of a section
AtHeader ==
    /\ pc = "parse"
    /\ upd = NULL
    /\ index < Len(lines)
    /\ ~StartsWith(lines[index + 1], END_PATCH)

\* the Patch holds an action under the path p
Recorded(p) == \E i \in 1..Len(patch) : patch[i].key = p

\* C4: the Patch never holds two actions under one path; an action once
\* recorded is never replaced or merged; and a section of any type whose
\* header names a recorded path makes the parser fail with the DiffError
\* "... Duplicate Path: <path>" and leaves the Patch as it was.
C4_OneActionPerPath ==
    [][ /\ \A i, j \in 1..Len(patch') : patch'[i].key = patch'[j].key => i = j
        /\ \A i \in 1..Len(patch) : \E j \in 1..Len(patch') : patch'[j] = patch[i]
        /\ (AtHeader /\ Recorded(HeaderPath(lines[index + 1])))
              => /\ outcome' = Raised(DiffError(DuplicateMessage(lines[index + 1])))
                 /\ patch' = patch
      ]_vars

\* a second "Update File: a" section has failed and the first action stands
C4_Witness ==
    /\ outcome = Raised(DiffError(MSG_UpdateDup \o PathA))
    /\ Len(patch) = 1
    /\ patch[1].key = PathA
    /\ patch[1].val.type = UPDATE
    /\ StartsWith(lines[index], UPDATE_FILE \o PathA)

\* the lines ls are a patch with one section, "Add File: p", whose body lines
\* all begin with "+"
AddOnly(ls) ==
    /\ Len(ls) >= 3
    /\ ls[1] = BEGIN_PATCH
    /\ StartsWith(ls[2], ADD_FILE)
    /\ Len(ls[2]) > Len(ADD_FILE)
    /\ \A i \in 3..(Len(ls) - 1) : StartsWith(ls[i], <<"+">>)
    /\ ls[Len(ls)] = END_PATCH

\* the body lines l1 ... ln of such a patch, joined by newlines
AddedContent(ls) == Join([i \in 1..(Len(ls) - 3) |-> SliceFrom(ls[i + 2], 1)])

\* the Commit of such a patch: one entry, p: Add with the joined body
AddCommit(ls) ==
    << [key |-> SliceFrom(ls[2], Len(ADD_FILE)),
        val |-> FileChange(ADD, NULL, Some(AddedContent(ls)), NULL)] >>

\* the one call that apply_commit makes for such a patch
IsAddWrite(c, ls) ==
    /\ c.op = "write"
    /\ c.path = SliceFrom(ls[2], Len(ADD_FILE))
    /\ c.content = AddedContent(ls)

\* what C5 asks of a run over the lines ls
AddRun(ls) ==
    /\ Len(calls) <= 1
    /\ \A i \in 1..Len(calls) : IsAddWrite(calls[i], ls)
    /\ pc = "apply" => (commit = AddCommit(ls) /\ Len(calls) = ci)
    /\ pc \in {"ended", "exit"} => (commit = AddCommit(ls) /\ Len(calls) = 1)

\* C5: a patch with the one section "Add File: p" and body "+l1" ... "+ln"
\* yields the Commit {p: Add, new_content = l1..ln joined by newlines};
\* apply_commit calls write(p, that content) exactly once and never calls
\* remove (nor is any file read).
C5_AddEndToEnd == AddOnly(Split(text)) => AddRun(Split(text))

\* the example: "Add File: a.txt" with "+hello", "+world" and no files has
\* written a.txt once and returned
C5_Witness ==
    /\ text = ExampleAdd.text
    /\ outcome = Returned(DONE)
    /\ commit = << [key |-> A_TXT,
                    val |-> FileChange(ADD, NULL, Some(Join(<<HELLO, WORLD>>)), NULL)] >>
    /\ calls = << Call("write", A_TXT, Join(<<HELLO, WORLD>>), 1, TRUE) >>
    /\ disk = [f \in {ROOT \o <<"/">> \o A_TXT} |-> Join(<<HELLO, WORLD>>)]

\* the calls that apply_commit made for entry k of the commit, in order
CallsOf(k) == SelectSeq(calls, LAMBDA c : c.entry = k)

\* entry k of the commit is an Update with a move path
IsMove(k) == commit[k].val.type = UPDATE /\ HasMove(commit[k].val)

\* the calls cs of the move entry k: first write(movePath, newContent), then,
\* only if that write returned, remove(oldPath), and nothing else
WriteThenRemove(k, cs) ==
    /\ Len(cs) <= 2
    /\ Len(cs) >= 1 => cs[1] = Call("write", commit[k].val.move_path[1],
                                    commit[k].val.new_content[1], k, cs[1].ok)
    /\ Len(cs) = 2 => /\ cs[1].ok
                      /\ cs[2] = Call("remove", commit[k].key, <<>>, k, cs[2].ok)
    /\ ci >= k => Len(cs) = 2

\* none of the calls cs of entry k writes to the path of the entry
NoWriteToOldPath(k, cs) ==
    \A i \in 1..Len(cs) : cs[i].op = "write" => cs[i].path # commit[k].key

\* C6, the order of the calls alone: for an Update entry with a move path
\* apply_commit calls write(movePath, newContent) before remove(oldPath),
\* makes no other call for the entry, and does not call remove(oldPath) if
\* the write raised.
C6_WriteBeforeRemove ==
    \A k \in 1..Len(commit) : IsMove(k) => WriteThenRemove(k, CallsOf(k))

\* C6 as stated: the order of the calls, and no write to oldPath
C6_WriteBeforeRemoveNeverOldPath ==
    \A k \in 1..Len(commit) :
        IsMove(k) => (WriteThenRemove(k, CallsOf(k)) /\ NoWriteToOldPath(k, CallsOf(k)))

\* the example: "Update File: a.txt", "Move to: b.txt" and a no-op hunk has
\* written b.txt and then removed a.txt
C6_Witness ==
    /\ text = ExampleMove.text
    /\ outcome = Returned(DONE)
    /\ calls = << Call("read", A_TXT, <<>>, 0, TRUE),
                  Call("write", B_TXT, Join(<<LINE1, LINE2, LINE3>>), 1, TRUE),
                  Call("remove", A_TXT, <<>>, 1, TRUE) >>

\* the file that a path of the patch names, relative paths taken from the
\* working directory
FileOf(path) == ResolvePath(ROOT, path)

\* the files hold content at path
Holds(path, content) == FsHas(disk, FileOf(path)) /\ disk[FileOf(path)] = content

\* process_patch returned "Done!" for a patch whose single action is an
\* Update with a move path
MoveDone == outcome = Returned(DONE) /\ Len(commit) = 1 /\ IsMove(1)

\* C7: an Update with a move path never loses data: once process_patch has
\* returned "Done!" for a patch of that one action, the files hold newContent
\* at the move path, whatever the move path is.
C7_MoveKeepsNewContent ==
    MoveDone => Holds(commit[1].val.move_path[1], commit[1].val.new_content[1])

\* the loss: "Done!" was returned for a move of a, the only file, and no file
\* is left
C7_Witness ==
    /\ MoveDone
    /\ commit[1].key = PathA
    /\ calls[Len(calls)] = Call("remove", PathA, <<>>, 1, TRUE)
    /\ disk = NoFiles

\* the cursor of getUpdatedFile when it comes to chunk k, the chunks before
\* it having been applied: the end of the lines that chunk k - 1 deletes
Cursor(chunks, k) ==
    IF k = 1 THEN 0 ELSE chunks[k - 1].orig_index + Len(chunks[k - 1].del_lines)

\* chunk k starts past the last line of ls or before the cursor
OutOfRange(ls, chunks, k) ==
    \/ chunks[k].orig_index > Len(ls)
    \/ chunks[k].orig_index < Cursor(chunks, k)

\* r, the result of getUpdatedFile for filePath, is a DiffError whose message
\* names filePath, without content, and both drivers render it as its message
PathError(r, filePath) ==
    /\ r.err # NULL
    /\ r.err[1].cls = "DiffError"
    /\ StartsWith(r.err[1].message, MSG_GetUpdated \o filePath \o <<":">>)
    /\ r.content = <<>>
    /\ MainResult(Raised(r.err[1])) = Yielded(r.err[1].message)
    /\ InvokeResult(Raised(r.err[1])) = Yielded(r.err[1].message)

\* C8: whenever some chunk's orig_index exceeds the number of lines of the
\* original or is smaller than the cursor (unsorted or overlapping chunks),
\* getUpdatedFile returns no content and raises a DiffError whose message
\* names the file path, which the drivers render as text.
C8_OutOfRangeChunkRaises ==
    (fret # NULL /\ \E k \in 1..Len(fcall[1].chunks) :
                        OutOfRange(Split(fcall[1].text), fcall[1].chunks, k))
    => PathError(fret[1], fcall[1].path)

\* the second of two chunks starts inside the lines the first one deletes,
\* within the file, and getUpdatedFile has raised
C8_Witness ==
    /\ fret # NULL
    /\ Len(fcall[1].chunks) = 2
    /\ fcall[1].chunks[1].del_lines # <<>>
    /\ ~OutOfRange(Split(fcall[1].text), fcall[1].chunks, 1)
    /\ fcall[1].chunks[2].orig_index < Cursor(fcall[1].chunks, 2)
    /\ fcall[1].chunks[2].orig_index <= Len(Split(fcall[1].text))
    /\ fret[1].err # NULL

\* the message of o is the one that getUpdatedFile also writes to the console
\* before it throws: "... chunk.orig_index i > len(lines) n"
LoggedTwice(o) ==
    \E i \in 1..Len(patch) :
        StartsWith(o.message, MSG_GetUpdated \o patch[i].key \o MSG_ChunkOrigIndex)

C10_BeginMarkerAsserted ==
    (pc # "start" /\ text # <<>> /\ ~StartsWith(text, BEGIN_PATCH)) =>
        /\ outcome.status = "raised"
        /\ outcome.cls = "AssertionError"
        /\ calls = <<>>

\* a text that names a file to delete but lacks the Begin marker: the run has
\* ended with the AssertionError and the file was never read
C10_Witness ==
    /\ text = Join(<< DELETE_FILE \o PathA, END_PATCH >>)
    /\ FsHas(disk, FileA)
    /\ pc = "exit"
    /\ outcome = Raised(AssertFail(<<>>))
    /\ calls = <<>>

\* text_to_patch has been called in this run: the text passed the assertion
\* of process_patch and every original was loaded
EnvelopeTested ==
    /\ pc \notin {"start", "load"}
    /\ StartsWith(text, BEGIN_PATCH)
    /\ Len(orig) = Len(paths)

\* the first line of ls is the Begin marker and its last line the End marker
Enveloped(ls) == ls[1] = BEGIN_PATCH /\ ls[Len(ls)] = END_PATCH

\* text_to_patch raised "Invalid patch text" and no action was built
Rejected == outcome = Raised(DiffError(MSG_InvalidPatchText)) /\ patch = <<>>

\* C11: text_to_patch accepts a text only if the first line of the trimmed
\* text equals "*** Begin Patch" and its last line equals "*** End Patch";
\* for every other text it raises DiffError "Invalid patch text" and builds
\* no action.
C11_EnvelopeEquals ==
    (EnvelopeTested /\ ~Enveloped(Split(Trim(text)))) => Rejected

\* a text whose first line is "*** Begin Patch!" was accepted and its Delete
\* action was built
C11_Witness ==
    /\ text = Join(<< BEGIN_PATCH \o <<"!">>, DELETE_FILE \o PathA, END_PATCH >>)
    /\ EnvelopeTested
    /\ patch # <<>>
    /\ outcome = Returned(DONE)

\* C12: for every whole-file mapping A, assemble_changes(A, A) returns a
\* Commit with no changes.
C12_SameMappingNoChanges ==
    (fret # NULL /\ fcall[1].orig = fcall[1].dest) =>
        (fret[1].err = NULL /\ fret[1].changes = <<>>)

\* assemble_changes has returned for a mapping of two paths, one of them
\* mapped to the empty string, given as both arguments
C12_Witness ==
    /\ fret # NULL
    /\ fcall[1].orig = fcall[1].dest
    /\ Len(fcall[1].orig) = 2
    /\ \E i \in 1..2 : fcall[1].orig[i].val = Some(<<>>)
    /\ fret[1].changes = <<>>

\* the change that assemble_changes should record for a path with the
\* contents old and new (NULL: the path is absent), or NULL for none
Classified(old, new) ==
    IF old = new THEN NULL
    ELSE IF old # NULL /\ new # NULL THEN Some(FileChange(UPDATE, old, new, NULL))
    ELSE IF old = NULL THEN Some(FileChange(ADD, NULL, new, NULL))
    ELSE Some(FileChange(DELETE, old, NULL, NULL))

\* the changes hold for path exactly what Classified gives
ClassifiedIn(changes, path, c) ==
    IF c = NULL THEN ~hasOwn(changes, path)
    ELSE hasOwn(changes, path) /\ ObjGet(changes, path) = c[1]

\* the paths of both mappings
BothKeys(before, after) ==
    {before[i].key : i \in 1..Len(before)} \cup {after[i].key : i \in 1..Len(after)}

\* the Commit r is the classification of every path of the two mappings
ClassifiesAll(r, before, after) ==
    /\ r.err = NULL
    /\ \A i \in 1..Len(r.changes) : r.changes[i].key \in BothKeys(before, after)
    /\ \A p \in BothKeys(before, after) :
          ClassifiedIn(r.changes, p, Classified(getOrNull(before, p), getOrNull(after, p)))

\* C13: assemble_changes returns a Commit for every pair of mappings, with
\* nothing for a path whose contents are equal, an Update when both are
\* present and differ, an Add when only the new one is present and a Delete
\* when only the old one is present, the empty string being a content like
\* any other.
C13_ClassifiesEveryPath ==
    fret # NULL => ClassifiesAll(fret[1], fcall[1].orig, fcall[1].dest)

\* C13 restricted to the pairs of mappings in which no path is absent (or
\* null) on one side and mapped to the empty string on the other
C13_ClassifiesNonEmpty ==
    (fret # NULL /\ \A p \in BothKeys(fcall[1].orig, fcall[1].dest) :
                        {getOrNull(fcall[1].orig, p), getOrNull(fcall[1].dest, p)}
                            # {NULL, Some(<<>>)})
    => ClassifiesAll(fret[1], fcall[1].orig, fcall[1].dest)

\* the call has thrown the AssertionError for a path that is absent from one
\* mapping and mapped to the empty string by the other
C13_Witness ==
    /\ fret # NULL
    /\ fret[1].err = Some(AssertFail(<<>>))
    /\ fcall[1].orig = <<>>
    /\ fcall[1].dest = << [key |-> <<"a">>, val |-> Some(<<>>)] >>

\* the effects that entry k of the commit calls for, by its type
Expected(k) ==
    IF commit[k].val.type = DELETE
    THEN << Effect("remove", commit[k].key, <<>>) >>
    ELSE IF commit[k].val.type = ADD \/ ~HasMove(commit[k].val)
    THEN << Effect("write", commit[k].key, commit[k].val.new_content[1]) >>
    ELSE << Effect("write", commit[k].val.move_path[1], commit[k].val.new_content[1]),
            Effect("remove", commit[k].key, <<>>) >>

\* the calls cs as effects
EffectsIn(cs) == [i \in 1..Len(cs) |-> Effect(cs[i].op, cs[i].path, cs[i].content)]

\* the calls cs made for entry k are the first of its expected effects, all
\* of them once the entry is done, and only the last one may have raised
ExactEffects(k, cs) ==
    /\ Len(cs) <= Len(Expected(k))
    /\ EffectsIn(cs) = SubSeq(Expected(k), 1, Len(cs))
    /\ \A i \in 1..(Len(cs) - 1) : cs[i].ok
    /\ k <= ci => (Len(cs) = Len(Expected(k)) /\ cs[Len(cs)].ok)
    /\ k > ci + 1 => cs = <<>>

\* C14: for every entry of the commit apply_commit performs exactly the
\* effects of its type: Delete, one remove(path); Add and Update without
\* move, one write(path, new_content); Update with move, one
\* write(movePath, new_content) followed by one remove(path); and no write
\* or remove belongs to no entry.
C14_ExactEffectsPerEntry ==
    /\ \A k \in 1..Len(commit) : ExactEffects(k, CallsOf(k))
    /\ \A i \in 1..Len(calls) :
          calls[i].op # "read" => calls[i].entry \in 1..Len(commit)

\* a commit of a Delete and an Update with move has been applied in full
C14_Witness ==
    /\ outcome = Returned(DONE)
    /\ Len(commit) = 2
    /\ ci = 2
    /\ commit[1].val.type = DELETE
    /\ IsMove(2)
    /\ Len(calls) = Len(paths) + 3

\* a write or remove of apply_commit has raised
Failed == \E i \in 1..Len(calls) : calls[i].op # "read" /\ ~calls[i].ok

\* the call that raised is the last call ever made, its entry is left
\* undone, and process_patch has ended by raising
FailureEnds ==
    /\ ~calls[Len(calls)].ok
    /\ \A i \in 1..(Len(calls) - 1) : calls[i].ok
    /\ ci = calls[Len(calls)].entry - 1
    /\ pc \in {"ended", "exit"}
    /\ outcome.status = "raised"
    /\ outcome.cls \in {"Error", "DiffError"}
    /\ pc = "exit" => output = (IF outcome.cls = "DiffError" THEN Yielded(outcome.message)
                                ELSE Thrown(outcome))

\* C15: once a write or remove has raised while apply_commit processes entry
\* k, the error leaves process_patch, no further call is ever made (no
\* retry, no compensating call, nothing for the entries after k), and the
\* files stay as the entries before k left them: the failing step and every
\* later step leave them unchanged.
C15_NoRollbackNoRetry ==
    /\ [](Failed => FailureEnds)
    /\ [][Failed' => (disk' = disk /\ (Failed => calls' = calls))]_vars

\* the second entry of a commit failed after the first one was applied, and
\* the driver has ended
C15_Witness ==
    /\ Failed
    /\ pc = "exit"
    /\ Len(commit) = 2
    /\ calls[Len(calls)].entry = 2
    /\ \E i \in 1..Len(calls) : calls[i].entry = 1 /\ calls[i].op = "write" /\
          Holds(calls[i].path, calls[i].content)

\* the paths of the file headers among the lines ls from line i on, in the
\* order of the text
RECURSIVE HeaderPaths(_, _)
HeaderPaths(ls, i) ==
    IF i > Len(ls) THEN <<>>
    ELSE IF startsWithAny(ls[i], {UPDATE_FILE, DELETE_FILE, ADD_FILE})
    THEN <<HeaderPath(ls[i])>> \o HeaderPaths(ls, i + 1)
    ELSE HeaderPaths(ls, i + 1)

\* the paths of the entries that the writes and removes were made for, in
\* the order of the calls, each path once
RECURSIVE EffectPaths(_, _)
EffectPaths(i, acc) ==
    IF i > Len(calls) THEN acc
    ELSE IF calls[i].op = "read" THEN EffectPaths(i + 1, acc)
    ELSE EffectPaths(i + 1, SetAdd(acc, commit[calls[i].entry].key))

\* the Patch, the Commit and the effects of a run that returned "Done!"
\* list the paths in the order ps
OrderedAs(ps) ==
    /\ ObjKeys(patch) = ps
    /\ ObjKeys(commit) = ps
    /\ EffectPaths(1, <<>>) = ps

\* C16: the Patch, the Commit and the sequence of effects of apply_commit
\* follow the order in which the file sections appear in the patch text
\* (the lines that the Parser read), whatever the path names are.
C16_SectionOrderKept ==
    outcome = Returned(DONE) => OrderedAs(HeaderPaths(SubSeq(lines, 1, index), 1))

\* C16 for the patches none of whose paths is the decimal form of an integer
C16_SectionOrderKeptForNames ==
    (outcome = Returned(DONE) /\ \A i \in 1..Len(patch) : ~IsArrayIndex(patch[i].key))
    => OrderedAs(HeaderPaths(SubSeq(lines, 1, index), 1))

\* "Add File: b" followed by "Add File: 1" has been applied: 1 was written
\* before b
C16_Witness ==
    /\ outcome = Returned(DONE)
    /\ HeaderPaths(SubSeq(lines, 1, index), 1) = << PathB, <<"1">> >>
    /\ ObjKeys(commit) = << <<"1">>, PathB >>
    /\ Len(calls) = 2
    /\ calls[1].path = <<"1">>
    /\ calls[2].path = PathB

\* the distinct paths of the Update File and Delete File lines among ls, in
\* order of first appearance
RECURSIVE NeededPaths(_, _, _)
NeededPaths(ls, i, acc) ==
    IF i > Len(ls) THEN acc
    ELSE IF startsWithAny(ls[i], {UPDATE_FILE, DELETE_FILE})
    THEN NeededPaths(ls, i + 1, SetAdd(acc, HeaderPath(ls[i])))
    ELSE NeededPaths(ls, i + 1, acc)

\* the calls are the reads rs and then the writes and removes; the reads are
\* of the first of the paths np, in their order, and of all of them before
\* parsing starts and before any write or remove
ReadsFirst(rs, np) ==
    /\ SubSeq(calls, 1, Len(rs)) = rs
    /\ Len(rs) <= Len(np)
    /\ \A i \in 1..Len(rs) : rs[i].path = np[i] /\ (i < Len(rs) => rs[i].ok)
    /\ (pc \in {"parse", "commit", "apply"} \/ Len(calls) > Len(rs)) =>
          (Len(rs) = Len(np) /\ \A i \in 1..Len(rs) : rs[i].ok)

\* a step makes at most one call, appended to those made so far, and none
\* while the patch is parsed or the commit assembled
OneCallAtATime ==
    /\ pc \in {"parse", "commit"} => calls' = calls
    /\ \/ calls' = calls
       \/ Len(calls') = Len(calls) + 1 /\ SubSeq(calls', 1, Len(calls)) = calls

\* C17: in a run of process_patch the calls happen one after another: one
\* read per distinct path of an Update File or Delete File header, in order
\* of first appearance, then parsing and commit assembly without any call,
\* then the writes and removes; no write or remove is made before every
\* read has returned.
C17_ReadsThenParseThenEffects ==
    /\ [] ReadsFirst(SelectSeq(calls, LAMBDA c : c.op = "read"),
                     NeededPaths(Split(Trim(text)), 1, <<>>))
    /\ [][OneCallAtATime]_vars

\* a and b have been read, in the order of their headers, and the Delete of
\* b and the Update of a have been applied after that
C17_Witness ==
    /\ outcome = Returned(DONE)
    /\ Len(calls) = 4
    /\ calls[1] = Call("read", PathB, <<>>, 0, TRUE)
    /\ calls[2] = Call("read", PathA, <<>>, 0, TRUE)
    /\ calls[3] = Call("remove", PathB, <<>>, 1, TRUE)
    /\ calls[4].op = "write"

\* process_patch ended with a DiffError of the parser or of the commit
\* assembly: a DiffError other than "Path escapes workspace", which only the
\* injected functions of ApplyPatchTool raise
GrammarError ==
    /\ outcome.status = "raised"
    /\ outcome.cls = "DiffError"
    /\ ~StartsWith(outcome.message, MSG_PathEscapes)

\* C18: if process_patch ends with a grammar or context DiffError raised by
\* parsing or by commit assembly, in whatever section of the patch, then
\* neither write nor remove has been called: no file is changed.
C18_MalformedPatchChangesNothing ==
    GrammarError => (ci = 0 /\ \A i \in 1..Len(calls) : calls[i].op = "read")

\* the last section of a patch failed after an Add section was parsed and
\* recorded, and the driver has ended without any call
C18_Witness ==
    /\ GrammarError
    /\ pc = "exit"
    /\ Len(patch) = 1
    /\ patch[1].val.type = ADD
    /\ calls = <<>>

\* line i, which the Parser has read, is an "Update File: p" or
\* "Delete File: p" header whose path is not a key of the originals
MissingHeader(i) ==
    /\ startsWithAny(lines[i], {UPDATE_FILE, DELETE_FILE})
    /\ HeaderPath(lines[i]) # <<>>
    /\ ~hasOwn(orig, HeaderPath(lines[i]))

\* the Missing File message of the section that the header line opens
MissingMessage(line) ==
    (IF StartsWith(line, UPDATE_FILE) THEN MSG_UpdateMissing ELSE MSG_DeleteMissing)
    \o HeaderPath(line)

\* text_to_patch has raised the Missing File error of the header line
MissingRaised(line) == outcome = Raised(DiffError(MissingMessage(line)))

\* a Missing File error is raised only for an Update File or Delete File
\* header of a missing path, the one read last
OnlyForMissing ==
    (outcome.status = "raised" /\ \E m \in {MSG_UpdateMissing, MSG_DeleteMissing} :
                                      StartsWith(outcome.message, m))
    => \E i \in 2..index : MissingHeader(i) /\ MissingRaised(lines[i])

\* C19 as stated: every Update File or Delete File header of a path that is
\* not a key of the originals makes text_to_patch raise the Missing File
\* error naming the path, and no action is recorded for the path; no other
\* section raises it.
C19_MissingFileAlways ==
    /\ \A i \in 2..index :
          MissingHeader(i) => (MissingRaised(lines[i]) /\ ~Recorded(HeaderPath(lines[i])))
    /\ OnlyForMissing

\* C19: an Update File or Delete File header of a path that is not a key of
\* the originals and has no action yet makes text_to_patch raise the
\* Missing File error naming the path, and no action is recorded for it; if
\* the path has an action, of an Add File section, the Duplicate Path error
\* is raised and that action stays; no other section raises Missing File.
C19_MissingFileUnlessRecorded ==
    /\ \A i \in 2..index :
          MissingHeader(i) =>
             IF Recorded(HeaderPath(lines[i]))
             THEN /\ outcome = Raised(DiffError(DuplicateMessage(lines[i])))
                  /\ ObjGet(patch, HeaderPath(lines[i])).type = ADD
             ELSE MissingRaised(lines[i])
    /\ OnlyForMissing

\* "Update File: a" with "Move to: b" has failed for originals that hold b
\* only, after the Move to line was read
C19_Witness ==
    /\ orig = << [key |-> PathB, val |-> <<"y">>] >>
    /\ index = 3
    /\ lines[2] = UPDATE_FILE \o PathA
    /\ outcome = Raised(DiffError(MSG_UpdateMissing \o PathA))
    /\ patch = <<>>

\* the line is a file header: one of the three markers and a path
IsHeader(line) == HeaderPath(line) # <<>>

\* the line ends an Add File body as C20 states it: the next file header or
\* the End Patch line
EndsBodyAsStated(line) == IsHeader(line) \/ line = END_PATCH

\* the line ends an Add File body as parse_add_file tests it: it starts with
\* "*** End Patch", "*** Update File:", "*** Delete File:" or "*** Add File:"
EndsBodyAsTested(line) == startsWithAny(line, AddPrefixes)

\* the first line after line i that ends the body, or one past the last line
BodyEnd(i, Ends(_)) ==
    CHOOSE j \in (i + 1)..(Len(lines) + 1) :
        /\ j = Len(lines) + 1 \/ Ends(lines[j])
        /\ \A k \in (i + 1)..(j - 1) : ~Ends(lines[k])

\* the Add File section of header line i, its body being the lines before
\* line e, was parsed as C20 says: an action with the body lines stripped of
\* "+" and joined, or the error of the first body line without "+" (or the
\* Duplicate Path error of the header)
AddParsedAsStated(i, e) ==
    \/ outcome = Raised(DiffError(DuplicateMessage(lines[i])))
    \/ IF \A j \in (i + 1)..(e - 1) : StartsWith(lines[j], <<"+">>)
       THEN /\ Recorded(HeaderPath(lines[i]))
            /\ ObjGet(patch, HeaderPath(lines[i]))
                 = PatchAction(ADD, Some(Join([j \in 1..(e - 1 - i) |-> SliceFrom(lines[i + j], 1)])),
                               <<>>, NULL)
       ELSE \E j \in (i + 1)..(e - 1) :
               /\ ~StartsWith(lines[j], <<"+">>)
               /\ \A k \in (i + 1)..(j - 1) : StartsWith(lines[k], <<"+">>)
               /\ outcome = Raised(DiffError(MSG_InvalidAddLine \o lines[j]))

\* every Add File section that the Parser has read was parsed as C20 says
AddSections(Ends(_)) ==
    \A i \in 2..index :
        (StartsWith(lines[i], ADD_FILE) /\ IsHeader(lines[i]))
        => AddParsedAsStated(i, BodyEnd(i, Ends))

\* an Unknown Line error names the line the Parser stands at, which is no
\* file header
UnknownLineRaised ==
    (outcome.status = "raised" /\ StartsWith(outcome.message, MSG_UnknownLine))
    => /\ index < Len(lines)
       /\ outcome = Raised(DiffError(MSG_UnknownLine \o lines[index + 1]))
       /\ ~IsHeader(lines[index + 1])

\* C20: the body of an Add File section is all lines up to the next file
\* header or the End Patch line, each of which must begin with "+" and is
\* stripped of it, the lines joined by newline being the new file; the first
\* body line without "+" raises "Invalid Add File Line"; and a line at
\* section start that is neither a file header nor the End Patch line raises
\* "Unknown Line", so that text_to_patch returns only at the End Patch line.
C20_AddBodyAndUnknownLine ==
    /\ AddSections(EndsBodyAsStated)
    /\ UnknownLineRaised
    /\ pc = "commit" => lines[index] = END_PATCH

\* C20 with the body ending at the first line that starts with one of the
\* four markers of parse_add_file, and Parser.parse ending at the first
\* section-start line that starts with "*** End Patch"
C20_AddBodyUpToMarkerPrefix ==
    /\ AddSections(EndsBodyAsTested)
    /\ UnknownLineRaised
    /\ pc = "commit" => StartsWith(lines[index], END_PATCH)

\* text_to_patch has returned at the line "*** End Patch!" that follows the
\* body of "Add File: b": the Add action holds the one line before it and
\* the Delete File section after it was never read
C20_Witness ==
    /\ pc = "commit"
    /\ lines[index] = END_PATCH \o <<"!">>
    /\ lines[index + 1] = DELETE_FILE \o PathA
    /\ outcome = Running
    /\ patch = << [key |-> PathB, val |-> PatchAction(ADD, Some(<<"x">>), <<>>, NULL)] >>

\* the Parser is about to read a hunk of an Update section, and the line at
\* its index is neither "@@" nor "@@ <anchor>"
HunkWithoutAnchor ==
    /\ pc = "parse"
    /\ upd # NULL
    /\ ~is_done(lines, index, UpdatePrefixes)
    /\ ~StartsWith(lines[index + 1], AT_AT_SP)
    /\ lines[index + 1] # AT_AT

\* the complaint of parse_update_file about a hunk that lacks its "@@" line
AnchorDemanded(o) ==
    /\ o.status = "raised"
    /\ o.cls = "DiffError"
    /\ StartsWith(o.message, MSG_InvalidLineNL)

\* C21: within an Update action a hunk may start without "@@" only if it is
\* the first hunk: the first hunk (no hunk of the section parsed yet) is never
\* refused for lacking "@@", and every later hunk that starts with neither
\* "@@" nor "@@ <anchor>" ends text_to_patch with a DiffError, whatever hunks
\* precede it (pure insertions, EOF-anchored hunks)
C21_AnchorOmittedOnlyInFirstHunk ==
    [][HunkWithoutAnchor =>
         IF hunk = NULL
         THEN ~AnchorDemanded(outcome')
         ELSE outcome'.status = "raised" /\ outcome'.cls = "DiffError"]_vars

\* a later hunk without "@@", after an EOF-anchored hunk that deleted a line,
\* was refused
C21_Witness ==
    /\ AnchorDemanded(outcome)
    /\ upd # NULL
    /\ upd[1].chunks # <<>>
    /\ index >= 1
    /\ lines[index] = END_OF_FILE

\* a call of the write primitive with an absolute path
AbsoluteWrite(c) == c.op = "write" /\ IsAbsolute(c.path)

\* the step makes one call of an injected function
OneCall == Len(calls') = Len(calls) + 1

\* paths that name no file, among them an absolute one and one outside the
\* working directory
BadPaths(dsk) ==
    { p \in { PathA, PathB, <<"/", "c">>, <<".", ".", "/", "c">> } :
        ~FsHas(dsk, ResolvePath(ROOT, p)) }

\* C22: the write primitive of either driver, given an absolute path, is a
\* silent no-op: the call returns, no file changes, apply_commit goes on with
\* the entry and process_patch never ends in an error right after such a
\* call; the read and remove primitives raise for a path that names no file
C22_AbsoluteWriteIsNoOp ==
    /\ [][(OneCall /\ AbsoluteWrite(calls'[Len(calls')])) =>
            /\ calls'[Len(calls')].ok
            /\ disk' = disk
            /\ pc' = "apply"
            /\ outcome' = Running
            /\ (ci' = ci + 1 \/ moved')]_vars
    /\ []((outcome.status = "raised" /\ calls # <<>>) => ~AbsoluteWrite(calls[Len(calls)]))
    /\ \A p \in BadPaths(disk) :
            /\ open_fn(driver, disk, p).err # NULL
            /\ remove_fn(driver, disk, p).err # NULL
    /\ [][disk' # disk =>
            \A p \in BadPaths(disk') :
                /\ open_fn(driver, disk', p).err # NULL
                /\ remove_fn(driver, disk', p).err # NULL]_vars
    /\ [][(OneCall /\ calls'[Len(calls')].op = "read"
                  /\ calls'[Len(calls')].path \in BadPaths(disk)) =>
            /\ ~calls'[Len(calls')].ok
            /\ outcome'.status = "raised"
            /\ disk' = disk]_vars

\* the write of the first entry went to an absolute path and returned, the
\* second entry was applied after it and process_patch returned "Done!"
C22_Witness ==
    /\ outcome = Returned(DONE)
    /\ \E i, j \in 1..Len(calls) :
         /\ AbsoluteWrite(calls[i])
         /\ calls[i].ok
         /\ calls[j].entry > calls[i].entry
         /\ calls[j].ok

\* the file that path.resolve(root, sanitizePatchPath(relative.trim())) names
Target(relative) == ResolvePath(ROOT, sanitizePatchPath(Trim(relative)))

\* file is the workspace root or one of its descendants
InWorkspace(file) == file = ROOT \/ StartsWith(file, ROOT \o <<"/">>)

\* call i of the run was refused with "Path escapes workspace" and ended it
Refused(i) ==
    /\ ~calls[i].ok
    /\ i = Len(calls)
    /\ outcome = Raised(DiffError(MSG_PathEscapes \o calls[i].path))

\* C23: workspace confinement of the apply_patch tool: every file of the
\* disk lies in the workspace, and every call of the read, write or remove
\* function whose path resolves outside the workspace root and its
\* descendants is refused with "Path escapes workspace" and ends the run
C23_ConfinedToWorkspace ==
    driver = "invoke" =>
        /\ \A f \in DOMAIN disk : InWorkspace(f)
        /\ \A i \in 1..Len(calls) : ~InWorkspace(Target(calls[i].path)) => Refused(i)

\* what isSubPath ensures: every file of the disk has a path that begins with
\* the characters of the root's path, and a call whose path resolves to a file
\* without that prefix is refused, or is a write to an absolute path, which
\* returns without I/O
C23_ConfinedToRootPrefix ==
    driver = "invoke" =>
        /\ \A f \in DOMAIN disk : StartsWith(f, ROOT)
        /\ \A i \in 1..Len(calls) :
              ~StartsWith(Target(calls[i].path), ROOT) =>
                  \/ Refused(i)
                  \/ AbsoluteWrite(calls[i]) /\ calls[i].ok

\* the tool was given "*** Add File: ../w2/c" and returned "Done!" with the
\* file /w2/c written next to the workspace
C23_Witness ==
    /\ driver = "invoke"
    /\ output = Yielded(DONE)
    /\ \E f \in DOMAIN disk : ~InWorkspace(f) /\ StartsWith(f, ROOT)

\* the context of the call c stands at offset j of its lines, fully inside
\* them, once both sides are compared as the pass compares them
MatchAt(c, j, pass) ==
    /\ j >= 0
    /\ j + Len(c.context) <= Len(c.lines)
    /\ NormAll(pass, SubSeq(c.lines, j + 1, j + Len(c.context))) = NormAll(pass, c.context)

\* the pass has a match at or after the offset from
HasMatch(c, from, pass) == \E j \in from..Len(c.lines) : MatchAt(c, j, pass)

\* the penalty of each pass
PassPenalty(pass) == IF pass = "exact" THEN 0 ELSE IF pass = "rstrip" THEN 1 ELSE 100

\* the first of the three passes that has a match at or after from
FirstPass(c, from) ==
    IF HasMatch(c, from, "exact") THEN "exact"
    ELSE IF HasMatch(c, from, "rstrip") THEN "rstrip"
    ELSE "trim"

\* the call of find_context_core that produced the result r of the call c of
\* find_context: its cursor and its result. An EOF-anchored call returns the
\* result of the search from lines.length - context.length, or 10000 more
\* than the penalty of the search from the cursor
CoreCall(c, r) ==
    IF ~c.eof THEN [start |-> c.start, found |-> r]
    ELSE IF r[2] < 10000 THEN [start |-> Len(c.lines) - Len(c.context), found |-> r]
    ELSE [start |-> c.start, found |-> <<r[1], r[2] - 10000>>]

\* what C24 states of one call of find_context_core on the lines and the
\* context of c, with cursor k.start and result k.found
ThreePasses(c, k) ==
    /\ Len(c.context) = 0 => k.found = <<k.start, 0>>
    /\ (Len(c.context) > 0 /\ \E p \in {"exact", "rstrip", "trim"} : HasMatch(c, k.start, p)) =>
          /\ MatchAt(c, k.found[1], FirstPass(c, k.start))
          /\ \A j \in k.start..(k.found[1] - 1) : ~MatchAt(c, j, FirstPass(c, k.start))
          /\ k.found[2] = PassPenalty(FirstPass(c, k.start))
    /\ k.found[1] # -1 =>
          /\ k.found[1] >= k.start
          /\ k.found[1] >= 0
          /\ k.found[1] + Len(c.context) <= Len(c.lines)

\* C24: find_context_core runs three passes over the offsets from the cursor
\* to the end of the file (exact equality, penalty 0; equality after stripping
\* trailing white space on both sides, penalty 1; equality after trimming both
\* sides, penalty 100) and returns the smallest matching offset of the first
\* pass that has any match; the offset returned is never below the cursor, the
\* matched window lies inside the file, and an empty context returns the
\* cursor itself with penalty 0
C24_ThreePassesFirstWins ==
    fret # NULL => ThreePasses(fcall[1], CoreCall(fcall[1], fret[1]))

\* the second pass returned an offset beyond the cursor with penalty 1 although
\* the third pass has a match at a smaller offset
C24_Witness ==
    /\ fret # NULL
    /\ ~fcall[1].eof
    /\ Len(fcall[1].context) > 0
    /\ fret[1][2] = 1
    /\ fret[1][1] > fcall[1].start
    /\ \E j \in fcall[1].start..(fret[1][1] - 1) : MatchAt(fcall[1], j, "trim")

\* the Parser is about to read a hunk of an Update section
PendingHunk ==
    /\ pc = "parse"
    /\ upd # NULL
    /\ ~is_done(lines, index, UpdatePrefixes)

\* the anchor text of the pending hunk: what follows "@@ " on its first line
HeaderText == read_str(lines, index, AT_AT_SP).text

\* the pending hunk has its "@@" line, or the cursor of the file is still 0
HeaderAccepted ==
    \/ HeaderText # <<>>
    \/ HasSectionStr(lines, read_str(lines, index, AT_AT_SP))
    \/ upd[1].idx = 0

\* the body of the pending hunk as peek_next_section scans it
Body ==
    peek_next_section(lines,
        AfterHeader(read_str(lines, index, AT_AT_SP),
                    HasSectionStr(lines, read_str(lines, index, AT_AT_SP))))

\* the search that the pending hunk asks of find_context: the file, the
\* context, the cursor once the anchor is sought, the EOF flag
Pending ==
    [lines |-> upd[1].lines, context |-> Body.old,
     start |-> SeekAnchor(upd[1].lines, HeaderText, upd[1].idx).idx, eof |-> Body.eof]

\* the search c finds its context nowhere: not from the cursor on and, when
\* EOF-anchored, not at the end of the file
NoMatch(c) ==
    /\ \A p \in {"exact", "rstrip", "trim"} : ~HasMatch(c, c.start, p)
    /\ c.eof => \A p \in {"exact", "rstrip", "trim"} :
                    ~MatchAt(c, Len(c.lines) - Len(c.context), p)

\* the error for the search c: the message names the cursor and the context
ContextError(c) ==
    DiffError((IF c.eof THEN MSG_InvalidEOFContext ELSE MSG_InvalidContext)
              \o Dec(c.start) \o MSG_ColonNL \o Join(c.context))

\* the EOF-anchored search c was resolved at newIndex with the penalty: at
\* lines.length - context.length with the penalty of the pass that matches
\* there, else at the first match from the cursor on with 10000 more
EofResolved(c, newIndex, penalty) ==
    IF \E p \in {"exact", "rstrip", "trim"} : MatchAt(c, Len(c.lines) - Len(c.context), p)
    THEN /\ newIndex = Len(c.lines) - Len(c.context)
         /\ penalty = PassPenalty(FirstPass(c, Len(c.lines) - Len(c.context)))
    ELSE /\ MatchAt(c, newIndex, FirstPass(c, c.start))
         /\ newIndex >= c.start
         /\ \A j \in c.start..(newIndex - 1) : ~MatchAt(c, j, FirstPass(c, c.start))
         /\ penalty = 10000 + PassPenalty(FirstPass(c, c.start))

\* C25: an EOF-anchored hunk is searched first at offset fileLineCount -
\* contextLineCount and, if its context stands there, resolved there with the
\* penalty of the pass alone; otherwise it is searched from the cursor on and
\* 10000 is added to the penalty. When the context of a hunk is found nowhere
\* the parser raises DiffError "Invalid EOF Context <cursor>" for an
\* EOF-anchored hunk and "Invalid Context <cursor>" otherwise, followed by the
\* context text, and records no chunk of the hunk
C25_EofSearchAndContextErrors ==
    /\ []((hunk # NULL /\ hunk[1].eof) =>
            EofResolved([lines |-> upd[1].lines, context |-> hunk[1].context,
                         start |-> hunk[1].start],
                        hunk[1].newIndex, hunk[1].penalty))
    /\ [][(PendingHunk /\ HeaderAccepted /\ Body.err = NULL /\ NoMatch(Pending)) =>
            /\ outcome' = Raised(ContextError(Pending))
            /\ upd' = upd
            /\ patch' = patch
            /\ hunk' = NULL]_vars

\* an EOF-anchored hunk with a chunk, whose context stands nowhere in the
\* file, ended text_to_patch with "Invalid EOF Context" and left no chunk
C25_Witness ==
    /\ outcome.status = "raised"
    /\ StartsWith(outcome.message, MSG_InvalidEOFContext)
    /\ upd # NULL
    /\ upd[1].chunks = <<>>
    /\ peek_next_section(lines, index).chunks # <<>>

\* the anchor text def is found in the file ls by the search of the pass: no
\* line before the cursor idx compares equal to it and a line from the cursor
\* on does
AnchorFound(ls, def, idx, pass) ==
    /\ \A i \in 1..Len(ls) : i <= idx => Norm(pass, ls[i]) # Norm(pass, def)
    /\ \E i \in 1..Len(ls) : i > idx /\ Norm(pass, ls[i]) = Norm(pass, def)

\* the anchor is matched only after trimming
AnchorTrimmedOnly(ls, def, idx) ==
    /\ Trim(def) # <<>>
    /\ ~AnchorFound(ls, def, idx, "exact")
    /\ AnchorFound(ls, def, idx, "trim")

\* the hunk has no anchor text, or its anchor is matched exactly
AnchorExactIfAny(ls, def, idx) == def = <<>> \/ AnchorFound(ls, def, idx, "exact")

\* the penalty of the matcher for the search c, whose context stands somewhere
ExpectedPenalty(c) ==
    IF c.eof /\ \E p \in {"exact", "rstrip", "trim"} :
                    MatchAt(c, Len(c.lines) - Len(c.context), p)
    THEN PassPenalty(FirstPass(c, Len(c.lines) - Len(c.context)))
    ELSE PassPenalty(FirstPass(c, c.start)) + (IF c.eof THEN 10000 ELSE 0)

\* the step reads the pending hunk and resolves it
HunkResolved == PendingHunk /\ pc' = "parse"

\* the fuzz of a patch is the sum over its hunks of the matcher's penalty and
\* of 1 for an anchor matched only after trimming; nothing else changes it
FuzzIsSum ==
    /\ [][HunkResolved =>
            fuzz' = fuzz + ExpectedPenalty(Pending)
                         + (IF AnchorTrimmedOnly(upd[1].lines, HeaderText, upd[1].idx)
                            THEN 1 ELSE 0)]_vars
    /\ [][(~PendingHunk /\ pc # "load") => fuzz' = fuzz]_vars
    /\ [](pc = "load" => fuzz = 0)

\* the line with white space added where the fuzzy passes ignore it: after
\* the text of a context line, a deleted line or an anchor, or before it
Drifts(line) ==
    IF line # <<>> /\ line[1] \in {" ", "-"}
    THEN { line \o <<" ">>, <<line[1], " ">> \o SliceFrom(line, 1) }
    ELSE IF StartsWith(line, AT_AT_SP) /\ Trim(SliceFrom(line, 3)) # <<>>
    THEN { line \o <<" ">>, AT_AT_SP \o <<" ">> \o SliceFrom(line, 3) }
    ELSE {}

\* the patches that differ from the lines ls in the white space of one line
Drifted(ls) ==
    { [i \in 1..Len(ls) |-> IF i = k[1] THEN k[2] ELSE ls[i]] :
        k \in UNION { {<<j, d>> : d \in Drifts(ls[j])} : j \in 1..Len(ls) } }

\* the two Patches resolve every chunk at the same offset
SameOffsets(p, q) ==
    /\ Len(p) = Len(q)
    /\ \A k \in 1..Len(p) :
          /\ p[k].key = q[k].key
          /\ Len(p[k].val.chunks) = Len(q[k].val.chunks)
          /\ \A j \in 1..Len(p[k].val.chunks) :
                p[k].val.chunks[j].orig_index = q[k].val.chunks[j].orig_index

\* the result r of text_to_patch is a Patch that gives the Commit of the
\* Patch of the run
SameCommit(r) ==
    /\ r.err = NULL
    /\ patch_to_commit(r.actions, orig) = patch_to_commit(patch, orig)

\* as SameCommit, for a Patch resolved at the offsets of the Patch of the run
SameCommitAtSameOffsets(r) ==
    (r.err = NULL /\ SameOffsets(r.actions, patch)) =>
        patch_to_commit(r.actions, orig) = patch_to_commit(patch, orig)

\* C26 as stated: the fuzz returned by text_to_patch is the sum over the hunks
\* of the matcher's penalties (0, 1 or 100, plus 10000 for an EOF fallback)
\* plus 1 for each anchor matched only after trimming; a hunk adds nothing
\* exactly when its anchor and its context matched exactly; and a patch that
\* differs from the patch of the run only in white space that the fuzzy passes
\* ignore gives the same Commit
C26_FuzzSumAndDriftSameCommit ==
    /\ FuzzIsSum
    /\ [][HunkResolved =>
            (fuzz' = fuzz <=> /\ AnchorExactIfAny(upd[1].lines, HeaderText, upd[1].idx)
                              /\ ExpectedPenalty(Pending) = 0)]_vars
    /\ [](pc = "commit" => \A v \in Drifted(lines) : SameCommit(text_to_patch(Join(v), orig)))

\* C26 as it holds: the sum is as stated; a hunk adds nothing exactly when its
\* anchor is not one matched only after trimming (an anchor found nowhere
\* adds nothing) and the matcher's penalty is 0; and a patch that differs only
\* in such white space gives the same Commit when its chunks are resolved at
\* the same offsets
C26_FuzzSumAndDriftSameOffsets ==
    /\ FuzzIsSum
    /\ [][HunkResolved =>
            (fuzz' = fuzz <=> /\ ~AnchorTrimmedOnly(upd[1].lines, HeaderText, upd[1].idx)
                              /\ ExpectedPenalty(Pending) = 0)]_vars
    /\ [](pc = "commit" =>
            \A v \in Drifted(lines) : SameCommitAtSameOffsets(text_to_patch(Join(v), orig)))

\* the result r of text_to_patch is a Patch resolved at the offsets of the
\* Patch of the run, with another fuzz
OtherFuzzSameOffsets(r) ==
    /\ r.err = NULL
    /\ SameOffsets(r.actions, patch)
    /\ r.fuzz # fuzz

\* text_to_patch returned a fuzz above 0 for a patch with a chunk, and a patch
\* that differs from it in white space is resolved at the same offsets with
\* another fuzz
C26_Witness ==
    /\ pc = "commit"
    /\ fuzz > 0
    /\ \E k \in 1..Len(patch) : patch[k].val.chunks # <<>>
    /\ \E v \in Drifted(lines) : OtherFuzzSameOffsets(text_to_patch(Join(v), orig))

\* a line that opens a hunk or a section, or ends the patch: no body line
BodyLimit(line) == StartsWith(line, AT_AT) \/ StartsWith(line, STARS)

\* the body lines of the hunk that the Parser has just read: the lines above
\* line e of the patch up to the nearest "@@" or "***" line
BodyLines(ls, e) ==
    SubSeq(ls, (CHOOSE j \in 2..(e + 1) :
                    /\ BodyLimit(ls[j - 1])
                    /\ \A i \in j..e : ~BodyLimit(ls[i])), e)

\* the body of the last hunk: its end-of-file marker is no body line
LastBody == BodyLines(lines, IF hunk[1].eof THEN index - 1 ELSE index)

IsInsert(line) == line # <<>> /\ line[1] = "+"

IsDelete(line) == line # <<>> /\ line[1] = "-"

IsKept(line) == ~IsInsert(line)

\* the lines without their first character, a blank line being a single space
Stripped(ls) == [i \in 1..Len(ls) |-> SliceFrom(BlankAsSpace(ls[i]), 1)]

\* the kept and deleted lines of the body, in patch order
OldOf(body) == Stripped(SelectSeq(body, IsKept))

\* lines a..b of the body are a maximal run of "+" and "-" lines
IsRun(body, a, b) ==
    /\ a <= b
    /\ \A i \in a..b : IsInsert(body[i]) \/ IsDelete(body[i])
    /\ a = 1 \/ ~(IsInsert(body[a - 1]) \/ IsDelete(body[a - 1]))
    /\ b = Len(body) \/ ~(IsInsert(body[b + 1]) \/ IsDelete(body[b + 1]))

\* the maximal runs of the body as pairs <<a, b>>
Runs(body) == { r \in (1..Len(body)) \X (1..Len(body)) : IsRun(body, r[1], r[2]) }

\* the chunk stated for the run a..b: its deleted and inserted lines, at the
\* number of kept and deleted lines up to b less the deleted lines of the run
RunChunk(body, a, b) ==
    Chunk(Len(OldOf(SubSeq(body, 1, b))) - Len(SelectSeq(SubSeq(body, a, b), IsDelete)),
          Stripped(SelectSeq(SubSeq(body, a, b), IsDelete)),
          Stripped(SelectSeq(SubSeq(body, a, b), IsInsert)))

\* the scan of the body gave old and chunks as C27 states them
ChunksAreRuns(body, old, chunks) ==
    /\ old = OldOf(body)
    /\ Len(chunks) = Cardinality(Runs(body))
    /\ \A r \in Runs(body) :
          chunks[Cardinality({q \in Runs(body) : q[1] <= r[1]})] = RunChunk(body, r[1], r[2])
    /\ \A k \in 1..Len(chunks) :
          /\ chunks[k].orig_index >= 0
          /\ chunks[k].del_lines
               = SubSeq(old, chunks[k].orig_index + 1,
                        chunks[k].orig_index + Len(chunks[k].del_lines))
          /\ k > 1 => chunks[k].orig_index
                        >= chunks[k - 1].orig_index + Len(chunks[k - 1].del_lines)

\* C27: peek_next_section emits exactly one chunk per maximal run of "+"/"-"
\* lines bounded by context lines or by the end of the section; old is the
\* sequence of kept and deleted lines in patch order; each chunk's orig_index
\* is old.length - del_lines.length at the flush, so that del_lines equals
\* old[orig_index .. orig_index + |del_lines|), and the chunks of one section
\* are ascending and do not overlap
C27_OneChunkPerRun ==
    hunk # NULL => ChunksAreRuns(LastBody, hunk[1].context, hunk[1].chunks)

\* a hunk with two runs around a context line gave two chunks, the second one
\* beyond the first
C27_Witness ==
    /\ hunk # NULL
    /\ Len(hunk[1].chunks) = 2
    /\ hunk[1].chunks[1].del_lines # <<>>
    /\ hunk[1].chunks[2].orig_index > hunk[1].chunks[1].orig_index

\* where the body of the pending hunk begins: past its "@@" line, if any
BodyStart ==
    AfterHeader(read_str(lines, index, AT_AT_SP),
                HasSectionStr(lines, read_str(lines, index, AT_AT_SP)))

\* a line that a hunk body may hold: empty, or led by "+", "-" or " "
ValidBodyLine(line) == line = <<>> \/ line[1] \in {"+", "-", " "}

\* a line that a hunk body may not hold: no boundary, and led by "***" or by
\* a character other than "+", "-" and " "
Offending(line) ==
    /\ ~SectionBoundary(line)
    /\ StartsWith(line, STARS) \/ ~ValidBodyLine(line)

\* line j is the first offending line of the body that starts after line b
OffenceAt(ls, b, j) ==
    /\ Offending(ls[j])
    /\ \A i \in (b + 1)..(j - 1) : ~SectionBoundary(ls[i]) /\ ValidBodyLine(ls[i])

InvalidLineRaised(o) ==
    /\ o.status = "raised"
    /\ o.cls = "DiffError"
    /\ StartsWith(o.message, MSG_InvalidLine)

\* the body went to the hunk h by the first character of each line
ModesByFirstChar(body, h) ==
    /\ \A i \in 1..Len(body) : ValidBodyLine(body[i])
    /\ Flatten([k \in 1..Len(h.chunks) |-> h.chunks[k].ins_lines])
         = [i \in 1..Len(SelectSeq(body, IsInsert)) |-> Tail(SelectSeq(body, IsInsert)[i])]
    /\ Flatten([k \in 1..Len(h.chunks) |-> h.chunks[k].del_lines])
         = [i \in 1..Len(SelectSeq(body, IsDelete)) |-> Tail(SelectSeq(body, IsDelete)[i])]
    /\ h.context
         = [i \in 1..Len(SelectSeq(body, IsKept)) |->
               IF SelectSeq(body, IsKept)[i] = <<>> THEN <<>>
               ELSE Tail(SelectSeq(body, IsKept)[i])]

\* C28: in a hunk body the first character of each line selects the mode: "+"
\* insertion, "-" deletion, " " keep, and an empty line is a keep line with
\* empty content; a line with any other first character, and a line starting
\* with "***" that is neither a recognised boundary nor exactly "***", raises
\* DiffError "Invalid Line: <line>" and the scan yields no chunks
C28_ModeByFirstCharElseInvalidLine ==
    /\ [](hunk # NULL => ModesByFirstChar(LastBody, hunk[1]))
    /\ [][(PendingHunk /\ HeaderAccepted) =>
            IF \E j \in (BodyStart + 1)..Len(lines) : OffenceAt(lines, BodyStart, j)
            THEN /\ \A j \in (BodyStart + 1)..Len(lines) :
                       OffenceAt(lines, BodyStart, j) =>
                           outcome' = Raised(DiffError(MSG_InvalidLine \o lines[j]))
                 /\ upd' = upd
                 /\ patch' = patch
                 /\ hunk' = NULL
            ELSE ~InvalidLineRaised(outcome')]_vars

\* a body that deletes a line and then holds a line led by "?" ended
\* text_to_patch with "Invalid Line: ?", and no action was recorded
C28_Witness ==
    /\ pc = "ended"
    /\ outcome = Raised(DiffError(MSG_InvalidLine \o <<"?">>))
    /\ \E i \in 1..(Len(lines) - 1) : lines[i] = <<"-", "x">> /\ lines[i + 1] = <<"?">>
    /\ patch = <<>>

\* the pending hunk is read and its body has no line: a boundary follows its
\* "@@" line, or stands where the hunk begins
ZeroBody ==
    /\ PendingHunk
    /\ HeaderAccepted
    /\ BodyStart < Len(lines)
    /\ SectionBoundary(lines[BodyStart + 1])

\* the pending hunk is read and line e, the first boundary after its body, is
\* the end-of-file marker
EofBoundaryAt(e) ==
    /\ PendingHunk
    /\ HeaderAccepted
    /\ e > BodyStart
    /\ lines[e] = END_OF_FILE
    /\ \A i \in (BodyStart + 1)..(e - 1) : ~SectionBoundary(lines[i]) /\ ValidBodyLine(lines[i])

NothingRaised(o) ==
    /\ o.status = "raised"
    /\ o.cls = "DiffError"
    /\ StartsWith(o.message, MSG_Nothing)

\* the hunk that ends at the end-of-file marker, line e, is EOF-anchored and
\* the cursor is past the marker: in the hunk the parser accepted, or in the
\* complaint about its context
EofFlagged(e, h, i, o) ==
    \/ h # NULL /\ h[1].eof /\ i = e
    \/ h = NULL /\ o.status = "raised" /\ StartsWith(o.message, MSG_InvalidEOFContext)

\* C29 as stated: a hunk that consumes zero body lines before a boundary
\* raises DiffError "Nothing in this section", except when it is the very
\* first hunk of an Update action; when the boundary is "*** End of File" the
\* hunk is flagged EOF-anchored and the cursor advances past the marker
C29_EmptyHunkRaisesUnlessFirst ==
    /\ [][(ZeroBody /\ lines[BodyStart + 1] # END_OF_FILE) =>
            IF hunk = NULL THEN ~NothingRaised(outcome') ELSE NothingRaised(outcome')]_vars
    /\ [][\A e \in 1..Len(lines) :
            EofBoundaryAt(e) => EofFlagged(e, hunk', index', outcome')]_vars

\* C29 as the code has it: a hunk that consumes zero body lines before a
\* boundary other than "*** End of File" raises DiffError "Nothing in this
\* section - index=<cursor> <boundary line>", the first hunk of an Update
\* action included, and no other hunk raises it; when the boundary is
\* "*** End of File" the hunk is flagged EOF-anchored and the cursor advances
\* past the marker, also when the hunk has no body line
C29_EmptyHunkRaises ==
    /\ [][(ZeroBody /\ lines[BodyStart + 1] # END_OF_FILE) =>
            /\ outcome' = Raised(DiffError(MSG_Nothing \o Dec(BodyStart) \o <<" ">>
                                           \o lines[BodyStart + 1]))
            /\ upd' = upd
            /\ patch' = patch
            /\ hunk' = NULL]_vars
    /\ [][NothingRaised(outcome') =>
            (outcome = outcome' \/ (ZeroBody /\ lines[BodyStart + 1] # END_OF_FILE))]_vars
    /\ [][\A e \in 1..Len(lines) :
            EofBoundaryAt(e) => EofFlagged(e, hunk', index', outcome')]_vars

\* the first hunk of an Update action, a lone "@@" line before the end of the
\* patch, was refused as an empty section
C29_Witness ==
    /\ pc = "ended"
    /\ hunk = NULL
    /\ patch = <<>>
    /\ Len(lines) = 4
    /\ lines[3] = AT_AT
    /\ outcome = Raised(DiffError(MSG_Nothing \o <<"3", " ">> \o END_PATCH))

\* each chunk begins where the one before it ends, or later
Ascending(chunks) ==
    \A k \in 2..Len(chunks) :
        chunks[k].orig_index >= chunks[k - 1].orig_index + Len(chunks[k - 1].del_lines)

\* C30: for every Update action that text_to_patch returns, the resolved
\* chunks are in ascending orig_index order and do not overlap across all the
\* hunks of the action, and the file cursor of the parser never moves
\* backwards, also across EOF-anchored hunks
C30_ChunksAscendAcrossHunks ==
    /\ upd # NULL => Ascending(upd[1].chunks)
    /\ pc = "commit" =>
          \A k \in 1..Len(patch) :
              patch[k].val.type = UPDATE => Ascending(patch[k].val.chunks)
    /\ hunk # NULL => upd[1].idx >= hunk[1].start

\* the part of C30 that the parser keeps: its file cursor never moves
\* backwards, and the chunks of a hunk that is not EOF-anchored begin at or
\* after the cursor, past every chunk of the hunks before it
C30_CursorNeverBack ==
    /\ [][(upd # NULL /\ upd' # NULL) => upd'[1].idx >= upd[1].idx]_vars
    /\ [][(PendingHunk /\ hunk' # NULL /\ ~hunk'[1].eof /\ Ascending(upd[1].chunks)) =>
            /\ Ascending(upd'[1].chunks)
            /\ \A k \in (Len(upd[1].chunks) + 1)..Len(upd'[1].chunks) :
                  upd'[1].chunks[k].orig_index >= upd[1].idx]_vars

\* text_to_patch returned an Update action whose second hunk, EOF-anchored,
\* deletes the line that its first hunk deletes
C30_Witness ==
    /\ pc = "commit"
    /\ Len(patch) = 1
    /\ patch[1].val.type = UPDATE
    /\ Len(patch[1].val.chunks) = 2
    /\ patch[1].val.chunks[1].del_lines # <<>>
    /\ patch[1].val.chunks[2] = patch[1].val.chunks[1]

\* every chunk lies inside a file of n lines
InsideFile(chunks, n) ==
    \A k \in 1..Len(chunks) :
        /\ chunks[k].orig_index >= 0
        /\ chunks[k].orig_index + Len(chunks[k].del_lines) <= n

\* the number of lines of the original file p
LinesOf(p) == Len(Split(ObjGet(orig, p)))

\* C31: every chunk of every Update action returned by text_to_patch has
\* 0 <= orig_index and orig_index + |del_lines| <= the number of lines of the
\* original file, for exact, fuzzy, empty-context and EOF-anchored hunks alike
C31_ChunksInsideFile ==
    /\ upd # NULL => InsideFile(upd[1].chunks, Len(upd[1].lines))
    /\ \A k \in 1..Len(patch) :
          patch[k].val.type = UPDATE => InsideFile(patch[k].val.chunks, LinesOf(patch[k].key))

\* text_to_patch returned an Update action of a hunk matched only after
\* trimming, whose deletion ends with the last line of the file
C31_Witness ==
    /\ pc = "commit"
    /\ fuzz >= 100
    /\ \E k \in 1..Len(patch) :
          /\ patch[k].val.type = UPDATE
          /\ \E j \in 1..Len(patch[k].val.chunks) :
                /\ patch[k].val.chunks[j].del_lines # <<>>
                /\ patch[k].val.chunks[j].orig_index + Len(patch[k].val.chunks[j].del_lines)
                     = LinesOf(patch[k].key)

\* process_patch ended as o by an error that the last call of an injected
\* function raised
RaisedByCall(o) ==
    /\ o.status = "raised"
    /\ calls # <<>>
    /\ ~calls[Len(calls)].ok

\* C32: for every patch text that starts with "*** Begin Patch" and every
\* behaviour of the injected read, write and remove, process_patch returns
\* "Done!", raises a DiffError or propagates an error raised by an injected
\* function; the cursor assertions of the parser and the assertions of
\* getUpdatedFile never fail on a Patch that the parser built
C32_DoneOrDiffErrorOrInjected ==
    StartsWith(text, BEGIN_PATCH) =>
        /\ outcome.cls # "AssertionError"
        /\ outcome # Running =>
              \/ outcome = Returned(DONE)
              \/ outcome.status = "raised" /\ outcome.cls = "DiffError"
              \/ RaisedByCall(outcome)
        /\ pc = "commit" =>
              \/ patch_to_commit(patch, orig).err = NULL
              \/ patch_to_commit(patch, orig).err[1].cls = "DiffError"

\* process_patch parsed and assembled a patch of two sections, wrote the
\* first, and ended with the error that the remove of the second raised
C32_Witness ==
    /\ StartsWith(text, BEGIN_PATCH)
    /\ outcome.status = "raised"
    /\ outcome.cls = "Error"
    /\ Len(calls) >= 2
    /\ calls[Len(calls)].op = "remove"
    /\ ~calls[Len(calls)].ok
    /\ calls[Len(calls) - 1].op = "write"
    /\ calls[Len(calls) - 1].ok

\* the step ends text_to_patch with a DiffError
EndsInDiffError ==
    /\ outcome = Running
    /\ outcome'.status = "raised"
    /\ outcome'.cls = "DiffError"

\* the step leaves the loop of parse_update_file: no iteration of a loop
LeavesUpdateLoop == upd # NULL /\ upd' = NULL /\ pc' = "parse"

\* the Add File section read by the step took one line for its header and one
\* for every line of the new file
AddLoopAdvances ==
    \A k \in 1..Len(patch') :
        (patch'[k].val.type = ADD /\ ~hasOwn(patch, patch'[k].key)) =>
            index' = index + 1
                     + (IF is_done(lines, index + 1, AddPrefixes) THEN 0
                        ELSE Len(Split(patch'[k].val.new_file[1])))

\* C33: text_to_patch terminates on every input: the line cursor of the
\* parser never decreases and never passes the final line before parse()
\* finishes, and every iteration of the loops of parse, parse_update_file and
\* parse_add_file advances the cursor by at least one line or raises a
\* DiffError
C33_CursorAdvancesParserTerminates ==
    /\ [][index' >= index]_vars
    /\ [](pc = "parse" => (1 <= index /\ index < Len(lines)))
    /\ [](1 <= index => index <= Len(lines))
    /\ [][pc = "parse" => (index' > index \/ EndsInDiffError \/ LeavesUpdateLoop)]_vars
    /\ [][pc = "parse" => AddLoopAdvances]_vars

\* text_to_patch returned with the cursor on the end of a patch of five
\* lines or more that holds an Update section
C33_Witness ==
    /\ pc = "commit"
    /\ index = Len(lines)
    /\ index >= 5
    /\ \E k \in 1..Len(patch) : patch[k].val.type = UPDATE

\* the deleted lines of the chunks before chunk j
RECURSIVE DelBefore(_, _)
DelBefore(chunks, j) ==
    IF j <= 1 THEN 0 ELSE DelBefore(chunks, j - 1) + Len(chunks[j - 1].del_lines)

\* the inserted lines of the chunks before chunk j
RECURSIVE InsBefore(_, _)
InsBefore(chunks, j) ==
    IF j <= 1 THEN 0 ELSE InsBefore(chunks, j - 1) + Len(chunks[j - 1].ins_lines)

\* the positions of the original lines that the chunks delete
DeletedAt(chunks) ==
    UNION { (chunks[j].orig_index + 1)..(chunks[j].orig_index + Len(chunks[j].del_lines)) :
              j \in 1..Len(chunks) }

\* the positions of the new lines that the chunks insert: chunk j inserts
\* where its offset has moved to by the chunks before it
InsertedAt(chunks) ==
    UNION { (chunks[j].orig_index - DelBefore(chunks, j) + InsBefore(chunks, j) + 1)
            ..(chunks[j].orig_index - DelBefore(chunks, j) + InsBefore(chunks, j)
               + Len(chunks[j].ins_lines)) : j \in 1..Len(chunks) }

\* the i-th smallest position of S
Nth(S, i) == CHOOSE x \in S : Cardinality({y \in S : y <= x}) = i

\* the lines of ls at the positions S, in order
Pick(ls, S) == [i \in 1..Cardinality(S) |-> ls[Nth(S, i)]]

\* the new lines are the old lines but for the chunks: the lines not inserted
\* are the lines not deleted, and the counts add up
Frame(old_lines, new_lines, chunks) ==
    /\ Len(new_lines) = Len(old_lines) - DelBefore(chunks, Len(chunks) + 1)
                        + InsBefore(chunks, Len(chunks) + 1)
    /\ Pick(new_lines, (1..Len(new_lines)) \ InsertedAt(chunks))
         = Pick(old_lines, (1..Len(old_lines)) \ DeletedAt(chunks))

\* C34: frame of an Update: every line of the new content that is not an
\* inserted line is taken verbatim from the original file, never from the
\* context text of the patch, also when the context matched only after
\* whitespace stripping; the new line count is the original count minus the
\* deleted lines plus the inserted lines; an Update without chunks yields
\* new_content equal to old_content
C34_UpdateFrame ==
    pc \in {"apply", "ended", "exit"} =>
        \A k \in 1..Len(commit) :
            commit[k].val.type = UPDATE =>
                /\ commit[k].val.old_content = Some(ObjGet(orig, commit[k].key))
                /\ Frame(Split(commit[k].val.old_content[1]),
                         Split(commit[k].val.new_content[1]),
                         ObjGet(patch, commit[k].key).chunks)
                /\ ObjGet(patch, commit[k].key).chunks = <<>> =>
                       commit[k].val.new_content = commit[k].val.old_content

\* a hunk that inserts a line matched the file's "x " with its context "x"
\* only after stripping: the new content keeps the file's "x " and has one
\* line more
C34_Witness ==
    /\ pc \in {"apply", "ended", "exit"}
    /\ fuzz > 0
    /\ \E k \in 1..Len(commit) :
          /\ commit[k].val.type = UPDATE
          /\ ObjGet(patch, commit[k].key).chunks # <<>>
          /\ \E i \in 1..Len(Split(commit[k].val.new_content[1])) :
                Split(commit[k].val.new_content[1])[i] = <<"x", " ">>
          /\ Len(Split(commit[k].val.new_content[1]))
               = Len(Split(commit[k].val.old_content[1])) + 1

\* the first line of ls at or after the cursor c that equals the anchor a as
\* the pass compares them, counted from 0
FirstAt(ls, a, c, pass) ==
    CHOOSE j \in c..(Len(ls) - 1) :
        /\ Norm(pass, ls[j + 1]) = Norm(pass, a)
        /\ \A i \in c..(j - 1) : Norm(pass, ls[i + 1]) # Norm(pass, a)

\* the cursor and the fuzz that C35 states for the anchor a at the cursor c
AnchorAsStated(ls, a, c) ==
    IF AnchorFound(ls, a, c, "exact") THEN AnchorResult(FirstAt(ls, a, c, "exact") + 1, 0)
    ELSE IF AnchorFound(ls, a, c, "trim") THEN AnchorResult(FirstAt(ls, a, c, "trim") + 1, 1)
    ELSE AnchorResult(c, 0)

\* the same, but a blank anchor is not sought
AnchorUnlessBlank(ls, a, c) ==
    IF Trim(a) = <<>> THEN AnchorResult(c, 0) ELSE AnchorAsStated(ls, a, c)

\* the step reads a hunk with the anchor text a and hands find_context the
\* cursor r.idx, adding r.fuzz to the fuzz for the anchor: seen in the hunk
\* that is accepted or in the complaint about its context
AnchorActsAs(r) ==
    /\ hunk' # NULL =>
          /\ hunk'[1].start = r.idx
          /\ fuzz' = fuzz + r.fuzz + hunk'[1].penalty
          /\ ~hunk'[1].eof => hunk'[1].newIndex >= r.idx
    /\ (hunk' = NULL /\ Body.err = NULL) =>
          outcome' = Raised(ContextError([Pending EXCEPT !.start = r.idx]))

\* C35 as stated: "@@ <anchor>": if the anchor equals a file line at or after
\* the cursor and no line before it, the cursor moves to just after the first
\* such line with no penalty; otherwise, if it equals such a line only after
\* trimming, the cursor moves likewise and fuzz grows by 1; if the anchor
\* occurs before the cursor or nowhere, the cursor stays and no error is
\* raised; the context of the hunk is then searched from the resulting cursor
C35_AnchorMovesCursor ==
    [][(PendingHunk /\ HeaderText # <<>>) =>
         AnchorActsAs(AnchorAsStated(upd[1].lines, HeaderText, upd[1].idx))]_vars

\* C35 as the code has it: the same for an anchor that is not blank; an
\* anchor of white space only leaves the cursor and the fuzz as they are
C35_AnchorMovesCursorUnlessBlank ==
    [][(PendingHunk /\ HeaderText # <<>>) =>
         AnchorActsAs(AnchorUnlessBlank(upd[1].lines, HeaderText, upd[1].idx))]_vars

\* a hunk with the anchor "x " was resolved in a file whose only line equal
\* to it after trimming is "x": the cursor went past that line, the fuzz grew
\* by 1 for the anchor
C35_Witness ==
    /\ hunk # NULL
    /\ Len(lines) >= 4
    /\ lines[3] = AT_AT_SP \o <<"x", " ">>
    /\ index >= 4
    /\ hunk[1].start > 0
    /\ fuzz = 1 + hunk[1].penalty
    /\ \A i \in 1..Len(upd[1].lines) : upd[1].lines[i] # <<"x", " ">>

\* the kind of action that the file header asks for
HeaderKind(line) ==
    IF StartsWith(line, UPDATE_FILE) THEN UPDATE
    ELSE IF StartsWith(line, DELETE_FILE) THEN DELETE
    ELSE ADD

\* every file header among the lines 2..last of the patch text has an action
\* of its kind, under its path, in the Patch
HeadersHaveActions(last) ==
    \A i \in 2..last :
        IsHeader(lines[i]) =>
            /\ hasOwn(patch, HeaderPath(lines[i]))
            /\ ObjGet(patch, HeaderPath(lines[i])).type = HeaderKind(lines[i])

\* C36: when text_to_patch succeeds the Parser has consumed every line between
\* the Begin and End markers and stands on the final line of the text, so
\* that every "*** Add File:", "*** Update File:" and "*** Delete File:"
\* header of the patch has an action in the returned Patch: no section is
\* skipped.
C36_EveryLineConsumed ==
    pc = "commit" =>
        /\ index = Len(lines)
        /\ lines[index] = END_PATCH
        /\ HeadersHaveActions(Len(lines) - 1)

\* what Parser.parse ensures instead: it stops on the first line that starts
\* with "*** End Patch", and every file header before that line has its action
C36_ConsumedUpToEndPrefix ==
    pc = "commit" =>
        /\ index <= Len(lines)
        /\ StartsWith(lines[index], END_PATCH)
        /\ \A i \in 2..(index - 1) : ~StartsWith(lines[i], END_PATCH)
        /\ HeadersHaveActions(index - 1)
        /\ Len(patch) = Cardinality({i \in 2..(index - 1) : IsHeader(lines[i])})

\* text_to_patch has returned a Patch although a file header after the line
\* it stopped on has no action
C36_Witness ==
    /\ pc = "commit"
    /\ outcome = Running
    /\ index < Len(lines)
    /\ \E i \in (index + 1)..(Len(lines) - 1) :
          /\ IsHeader(lines[i])
          /\ ~hasOwn(patch, HeaderPath(lines[i]))

\* a mapping of contents as assemble_changes takes it: every file present
AsMapping(files) == [i \in 1..Len(files) |-> [key |-> files[i].key, val |-> Some(files[i].val)]]

\* the mapping m without the path p
Without(m, p) == SelectSeq(m, LAMBDA e : e.key # p)

\* the mapping that results from applying the actions k.. of a Patch to the
\* mapping m, the originals being o
RECURSIVE AfterPatch(_, _, _, _)
AfterPatch(acts, o, k, m) ==
    IF k > Len(acts) THEN m
    ELSE IF acts[k].val.type = DELETE
    THEN AfterPatch(acts, o, k + 1, Without(m, acts[k].key))
    ELSE IF acts[k].val.type = ADD
    THEN AfterPatch(acts, o, k + 1, ObjSet(m, acts[k].key, acts[k].val.new_file))
    ELSE AfterPatch(acts, o, k + 1,
            ObjSet(m, acts[k].key,
                   Some(getUpdatedFile(ObjGet(o, acts[k].key), acts[k].val, acts[k].key).content)))

\* O' of C37 for the Patch and the originals of the run
PatchedFiles == AfterPatch(patch, orig, 1, AsMapping(orig))

\* no action of the Patch moves its file
WithoutMove == \A k \in 1..Len(patch) : patch[k].val.move_path \in {NULL, Some(<<>>)}

\* every action of the Patch changes the content of its file
EveryActionChanges ==
    \A k \in 1..Len(patch) :
        getOrNull(AsMapping(orig), patch[k].key) # getOrNull(PatchedFiles, patch[k].key)

\* process_patch has the Commit of a Patch that C37 speaks of
CommitOfChangingPatch ==
    /\ pc = "apply"
    /\ WithoutMove
    /\ EveryActionChanges

\* the two sets of changes have the same paths
SamePaths(cs, ds) ==
    {cs[i].key : i \in 1..Len(cs)} = {ds[i].key : i \in 1..Len(ds)}

\* C37: for originals O and a patch P without Move in which every action
\* changes the content of its file, patch_to_commit(text_to_patch(P, O), O)
\* and assemble_changes(O, O'), O' being P applied to O, have the same paths
\* and under each path the same FileChange: type, old_content, new_content
\* and move_path.
C37_EntryPointsAgree ==
    CommitOfChangingPatch =>
        /\ assemble_changes(AsMapping(orig), PatchedFiles).err = NULL
        /\ SamePaths(commit, assemble_changes(AsMapping(orig), PatchedFiles).changes)
        /\ \A i \in 1..Len(commit) :
              commit[i].val
              = ObjGet(assemble_changes(AsMapping(orig), PatchedFiles).changes, commit[i].key)

\* the action adds an empty file or deletes one
TouchesEmptyFile(a, before) ==
    \/ a.val.type = ADD /\ a.val.new_file = Some(<<>>)
    \/ a.val.type = DELETE /\ getOrNull(before, a.key) = Some(<<>>)

\* the two changes agree in type and contents, and neither moves the file
SameButMoveSpelling(c, d) ==
    /\ c.type = d.type
    /\ c.old_content = d.old_content
    /\ c.new_content = d.new_content
    /\ ~HasMove(c)
    /\ ~HasMove(d)

\* what the code ensures instead: assemble_changes fails its assertion exactly
\* when an action adds or deletes an empty file; otherwise the paths are the
\* same and under each path the changes agree in type, old_content and
\* new_content, and neither has a move (patch_to_commit records "" for it,
\* assemble_changes null)
C37_AgreeExceptEmptyAndMoveSpelling ==
    CommitOfChangingPatch =>
        /\ assemble_changes(AsMapping(orig), PatchedFiles).err # NULL
           <=> \E k \in 1..Len(patch) : TouchesEmptyFile(patch[k], AsMapping(orig))
        /\ assemble_changes(AsMapping(orig), PatchedFiles).err = NULL =>
              /\ SamePaths(commit, assemble_changes(AsMapping(orig), PatchedFiles).changes)
              /\ \A i \in 1..Len(commit) :
                    SameButMoveSpelling(commit[i].val,
                        ObjGet(assemble_changes(AsMapping(orig), PatchedFiles).changes,
                               commit[i].key))

\* the Commit of a Patch that updates one file, changing its content, and
\* adds another: assemble_changes returns for it
C37_Witness ==
    /\ CommitOfChangingPatch
    /\ \E i \in 1..Len(commit) : commit[i].val.type = UPDATE
    /\ \E i \in 1..Len(commit) : commit[i].val.type = ADD
    /\ assemble_changes(AsMapping(orig), PatchedFiles).err = NULL

\* the characters sub occur in s, next to each other
Contains(s, sub) == \E i \in 0..(Len(s) - Len(sub)) : SubSeq(s, i + 1, i + Len(sub)) = sub

\* a caller of process_patch has ended after process_patch raised an error
\* that is no DiffError
EndedOnOtherError ==
    /\ pc = "exit"
    /\ outcome.status = "raised"
    /\ outcome.cls # "DiffError"

\* a caller of process_patch has ended after process_patch raised a DiffError
EndedOnDiffError ==
    /\ pc = "exit"
    /\ outcome.status = "raised"
    /\ outcome.cls = "DiffError"

\* C38: every caller of process_patch (main, ApplyPatchTool.invoke and the
\* apply_patch interception of ShellTool) keeps the two error channels apart
\* in the same way: only a DiffError is turned into result text, any other
\* error raised during the patch (an AssertionError or an I/O error)
\* propagates to the caller and is never returned as a message.
C38_OnlyDiffErrorBecomesText ==
    /\ EndedOnDiffError =>
          (output.status = "yielded" /\ Contains(output.message, Trim(outcome.message)))
    /\ EndedOnOtherError => output = Thrown(outcome)

\* what the callers do: main and invoke as C38 says; the interception of
\* ShellTool returns text for every error, the summary of a failed command
\* for a DiffError and "Failed: " with the message for any other error
C38_ShellReturnsEveryError ==
    /\ EndedOnDiffError =>
          (output.status = "yielded" /\ Contains(output.message, Trim(outcome.message)))
    /\ (EndedOnOtherError /\ driver # "shell") => output = Thrown(outcome)
    /\ (EndedOnOtherError /\ driver = "shell") =>
          output = Yielded(MSG_Failed \o outcome.message)
    /\ (EndedOnDiffError /\ driver = "shell") =>
          /\ StartsWith(output.message, MSG_FailedExit \o <<"e", "x", "i", "t", " ", "1", ")">>)
          /\ ~StartsWith(output.message, MSG_Failed)

\* the interception of ShellTool has returned "Failed: ENOENT ..." for the
\* error of a read that process_patch passed on
C38_Witness ==
    /\ pc = "exit"
    /\ driver = "shell"
    /\ outcome.status = "raised"
    /\ outcome.cls = "Error"
    /\ calls # <<>>
    /\ ~calls[Len(calls)].ok
    /\ output.status = "yielded"
    /\ StartsWith(output.message, MSG_Failed)

(* ----------------------- ShellTool.invoke and its busy flag ----------------------- *)

\* number of invoke calls on one ShellTool
MaxInvocations == 2

MSG_Busy == <<"F","a","i","l","e","d",":"," ","s","h","e","l","l"," ","t","o","o","l"," ","i","s"," ","a","l","r","e","a","d","y"," ","r","u","n","n","i","n","g"," ","a","n","o","t","h","e","r"," ","c","o","m","m","a","n","d","."," ","P","l","e","a","s","e"," ","r","e","t","r","y"," ","i","n"," ","a"," ","m","o","m","e","n","t",".">>
MSG_WorkdirOutside == <<"F","a","i","l","e","d",":"," ","w","o","r","k","d","i","r"," ","m","u","s","t"," ","s","t","a","y"," ","i","n","s","i","d","e"," ","t","h","e"," ","c","u","r","r","e","n","t"," ","w","o","r","k","s","p","a","c","e",".">>
MSG_SchemaIssue == <<"R","e","q","u","i","r","e","d">>
MSG_SpawnFailed == <<"s","p","a","w","n"," ","f","a","i","l","e","d">>

\* a patch text that the interception extracts from the command
PatchText == Join(<<BEGIN_PATCH, END_PATCH>>)

\* how process_patch can end inside the interception; the Error also stands
\* for resolveWorkdirFromCd rejecting the directory of a leading cd
PatchOutcomes ==
    { Returned(DONE), Raised(DiffError(MSG_InvalidPatchText)),
      Raised([cls |-> "Error", message |-> MSG_WorkdirOutside]) }

\* what CommandRunner.run can resolve to
RunResults ==
    { CommandRunResult(TRUE, Some(0), FALSE, FALSE, <<"o", "k", "\n">>, <<>>),
      CommandRunResult(FALSE, Some(1), FALSE, FALSE, <<>>, <<"n", "o">>),
      CommandRunResult(FALSE, NULL, TRUE, FALSE, <<>>, <<>>),
      CommandRunResult(FALSE, NULL, FALSE, TRUE, <<>>, <<>>) }

\* one call of invoke: where it stands ("idle" before the call, "resolve" at
\* `await resolveWorkdir`, "cd" at `await resolveWorkdirFromCd`, "run" at
\* `await this.commandRunner.run`, "done" once its promise has settled), what
\* its command is, what it returned, and two observations: whether another
\* call was executing when it arrived, and when it tested the flag ("none"
\* before the test)
Invocation(pos, kind, result, arrivedDuring, testedDuring) ==
    [pos |-> pos, kind |-> kind, result |-> result, arrivedDuring |-> arrivedDuring,
     testedDuring |-> testedDuring]

\* the call i of the tool t is between `this.busy = true` and its finally
Executing(t, i) == t.inv[i].pos \in {"cd", "run"}

\* a call other than i is executing
OtherExecuting(t, i) == \E j \in 1..Len(t.inv) : j # i /\ Executing(t, j)

\* the call i returns the text message
ReturnText(t, i, message) ==
    [t EXCEPT !.inv[i].pos = "done", !.inv[i].result = Yielded(message)]

\* invoke up to its first await: the input is parsed, and a call with input
\* that the schema rejects returns at once
Arrive(t, i, kind, valid) ==
    IF valid
    THEN [t EXCEPT !.inv[i].pos = "resolve", !.inv[i].kind = kind,
                   !.inv[i].arrivedDuring = OtherExecuting(t, i)]
    ELSE ReturnText([t EXCEPT !.inv[i].kind = kind,
                              !.inv[i].arrivedDuring = OtherExecuting(t, i)],
                    i, MSG_Failed \o MSG_SchemaIssue)

\* `if (this.busy) return ...` and, with no await in between, `this.busy = true`
TestAndSet(t, i) ==
    IF t.busy
    THEN ReturnText([t EXCEPT !.inv[i].testedDuring = "busy"], i, MSG_Busy)
    ELSE [t EXCEPT !.busy = TRUE,
                   !.inv[i].testedDuring = "free",
                   !.inv[i].pos = IF t.inv[i].kind = "patch" THEN "cd" ELSE "run"]

\* invoke from the return of `await resolveWorkdir` to its next await
AfterResolveWorkdir(t, i, inside) ==
    IF ~inside THEN ReturnText(t, i, MSG_Failed \o MSG_WorkdirOutside)
    ELSE TestAndSet(t, i)

\* a faulty end that leaves the flag set when the call returns "Failed: ..."
SettleKeepsBusyOnFailure(t, i, message) ==
    [ReturnText(t, i, message) EXCEPT !.busy = StartsWith(message, MSG_Failed)]

\* the return of a try block or of its catch block, and `finally { this.busy = false }`
Settle(t, i, message) ==
    [ReturnText(t, i, message) EXCEPT !.busy = FALSE]

\* the tool and its calls are in fcall
ShellToolCalled ==
    /\ Idle
    /\ fcall = Some([busy |-> FALSE,
                     inv |-> [i \in 1..MaxInvocations |->
                                Invocation("idle", "", Running, FALSE, "none")]])
    /\ fret = NULL

\* a call of invoke arrives
InvokeArrives ==
    \E i \in 1..MaxInvocations, kind \in {"patch", "command"}, valid \in BOOLEAN :
        /\ fcall[1].inv[i].pos = "idle"
        /\ fcall' = Some(Arrive(fcall[1], i, kind, valid))
        /\ UNCHANGED <<run, fret>>

\* resolveWorkdir settles and the call goes on to the test of the flag
WorkdirResolved ==
    \E i \in 1..MaxInvocations, inside \in BOOLEAN :
        /\ fcall[1].inv[i].pos = "resolve"
        /\ fcall' = Some(AfterResolveWorkdir(fcall[1], i, inside))
        /\ UNCHANGED <<run, fret>>

\* the interception: resolveWorkdirFromCd settles, process_patch runs and the
\* call returns
PatchApplied ==
    \E i \in 1..MaxInvocations, o \in PatchOutcomes :
        /\ fcall[1].inv[i].pos = "cd"
        /\ fcall' = Some(Settle(fcall[1], i, ShellResult(o, PatchText).message))
        /\ UNCHANGED <<run, fret>>

\* commandRunner.run resolves and the call returns the summary
CommandRan ==
    \E i \in 1..MaxInvocations, r \in RunResults :
        /\ fcall[1].inv[i].pos = "run"
        /\ fcall' = Some(Settle(fcall[1], i,
                        formatCommandSummary(<<"l", "s">>, ROOT, r, <<>>, DEFAULT_TIMEOUT_MS)))
        /\ UNCHANGED <<run, fret>>

\* commandRunner.run rejects and the call returns "Failed: " and the message
CommandThrew ==
    \E i \in 1..MaxInvocations :
        /\ fcall[1].inv[i].pos = "run"
        /\ fcall' = Some(Settle(fcall[1], i, MSG_Failed \o MSG_SpawnFailed))
        /\ UNCHANGED <<run, fret>>

NextShellTool ==
    \/ InvokeArrives
    \/ WorkdirResolved
    \/ PatchApplied
    \/ CommandRan
    \/ CommandThrew

SpecShellTool == ShellToolCalled /\ [][NextShellTool]_vars

\* the calls of invoke on the tool
Invocations == 1..MaxInvocations

\* at most one call is executing, and the flag is set exactly while one is
OneExecutingIffBusy ==
    /\ \A i, j \in Invocations :
          (Executing(fcall[1], i) /\ Executing(fcall[1], j)) => i = j
    /\ fcall[1].busy <=> \E i \in Invocations : Executing(fcall[1], i)

\* a call that has returned the message about the running command never
\* executed: it goes from the test of the flag to its end
RefusedNeverExecutes ==
    \A i \in Invocations :
        fcall[1].inv[i].result = Yielded(MSG_Busy) =>
            /\ fcall[1].inv[i].pos = "done"
            /\ fcall[1].inv[i].testedDuring = "busy"

\* C39: under any interleaving of concurrent invoke calls on one ShellTool,
\* at most one call is running a command or applying a patch at a time; a
\* call that arrives while another is running returns "Failed: shell tool is
\* already running another command..." without executing anything; and the
\* busy flag is false again after the running call settles, whether it
\* succeeded, failed or threw.
C39_MutualExclusionFromArrival ==
    /\ OneExecutingIffBusy
    /\ RefusedNeverExecutes
    /\ \A i \in Invocations :
          fcall[1].inv[i].arrivedDuring =>
              /\ ~Executing(fcall[1], i)
              /\ fcall[1].inv[i].pos = "done" => fcall[1].inv[i].result = Yielded(MSG_Busy)

\* C39 as the code has it: the flag is tested after the input has been
\* parsed and the workdir resolved, so it is the call that reaches the test
\* of the flag while another is executing that returns the message, without
\* executing anything; a call that reaches the test while none is executing
\* takes the flag
C39_MutualExclusionFromTest ==
    /\ []OneExecutingIffBusy
    /\ []RefusedNeverExecutes
    /\ [](\A i \in Invocations :
            /\ fcall[1].inv[i].testedDuring = "busy" =>
                  fcall[1].inv[i].result = Yielded(MSG_Busy)
            /\ Executing(fcall[1], i) => fcall[1].inv[i].testedDuring = "free")
    /\ [][\A i \in Invocations :
            (fcall[1].inv[i].pos = "resolve" /\ fcall'[1].inv[i].pos # "resolve"
             /\ fcall'[1].inv[i].result # Yielded(MSG_Failed \o MSG_WorkdirOutside))
            => /\ fcall'[1].inv[i].testedDuring
                  = IF OtherExecuting(fcall[1], i) THEN "busy" ELSE "free"
               /\ Executing(fcall'[1], i) <=> ~OtherExecuting(fcall[1], i)]_vars
    /\ [][\A i \in Invocations :
            (Executing(fcall[1], i) /\ ~Executing(fcall'[1], i))
            => (~fcall'[1].busy /\ fcall'[1].inv[i].pos = "done")]_vars

\* one call was refused at the test of the flag while the other was
\* executing, and the other has since returned "Failed: ..." for a command
\* that threw: the flag is free
C39_Witness ==
    /\ fcall # NULL
    /\ pc = "call"
    /\ Len(fcall[1].inv) = MaxInvocations
    /\ fcall[1].inv[2].result = Yielded(MSG_Busy)
    /\ fcall[1].inv[1].testedDuring = "free"
    /\ fcall[1].inv[1].result = Yielded(MSG_Failed \o MSG_SpawnFailed)
    /\ ~fcall[1].busy

(* ------------------------------ CommandRunner.run ------------------------------ *)

MSG_TimedOut == <<"C","o","m","m","a","n","d"," ","t","i","m","e","d"," ","o","u","t",".">>
MSG_Cancelled == <<"C","o","m","m","a","n","d"," ","c","a","n","c","e","l","l","e","d",".">>
MSG_UnableToLaunch == <<"F","a","i","l","e","d",":"," ","u","n","a","b","l","e"," ","t","o"," ","l","a","u","n","c","h"," ","p","r","o","c","e","s","s"," ","(","E","N","O","E","N","T",")">>

\* the exit codes that a command or the terminal tool reports; NULL is null
\* or undefined
ExitCodes == {NULL, Some(0), Some(1)}

\* number of "data" events of the child's stdout
MaxData == 2

\* one call of run: the engine, the local timedOut, the cancellation of the
\* caller's token, whether the timer and the cancellation listener are still
\* armed, whether cts.cancel() or child.kill() was called, the local stdout
\* and finished of runViaSpawn, which events of the child were delivered, and
\* how often and with what the promise was settled
RunState(engine, timedOut, cancelRequested, armed, signalled, stdout, finished, events,
         settled, result) ==
    [engine |-> engine, timedOut |-> timedOut, cancelRequested |-> cancelRequested,
     armed |-> armed, signalled |-> signalled, stdout |-> stdout, finished |-> finished,
     events |-> events, settled |-> settled, result |-> result]

\* resolve(r) or the return of r from the async function
Resolve(s, r) ==
    [s EXCEPT !.settled = @ + 1, !.result = IF s.settled = 0 THEN Some(r) ELSE @]

\* reject(e) or a throw out of the async function
Reject(s, e) ==
    [s EXCEPT !.settled = @ + 1, !.result = IF s.settled = 0 THEN Some(e) ELSE @]

\* clearTimer(timer) and the disposal of the cancellation listener
Disarm(s) == [s EXCEPT !.armed = FALSE]

\* runViaTerminalTool after invokeTool resolved with the exit code c in its
\* metadata: the try block and the finally block
ToolReturned(s, c) ==
    Disarm(Resolve(s, CommandRunResult(TRUE, c, FALSE, FALSE, <<"o", "k">>, <<>>)))

\* runViaTerminalTool after invokeTool rejected: the catch block and the
\* finally block
ToolFailed(s) ==
    IF s.timedOut
    THEN Disarm(Resolve(s, CommandRunResult(FALSE, NULL, TRUE, FALSE, <<>>, MSG_TimedOut)))
    ELSE IF s.cancelRequested
    THEN Disarm(Resolve(s, CommandRunResult(FALSE, NULL, FALSE, TRUE, <<>>, MSG_Cancelled)))
    ELSE Disarm(Reject(s, [cls |-> "Error", message |-> <<>>]))

\* the handler of the "error" event of the child
OnError(s) ==
    IF s.finished THEN s
    ELSE Disarm(Reject([s EXCEPT !.finished = TRUE],
                       [cls |-> "Error", message |-> MSG_UnableToLaunch]))

\* a faulty handler of "close" without the test of finished
OnCloseAlways(s, code) ==
    Disarm(Resolve([s EXCEPT !.finished = TRUE],
                   CommandRunResult(code = Some(0), code, FALSE, FALSE, s.stdout, <<>>)))

\* the handler of the "close" event of the child, code being its exit code
OnClose(s, code) ==
    IF s.finished THEN s
    ELSE IF s.timedOut
    THEN Disarm(Resolve([s EXCEPT !.finished = TRUE],
                        CommandRunResult(FALSE, NULL, TRUE, FALSE, s.stdout, <<>>)))
    ELSE IF s.cancelRequested
    THEN Disarm(Resolve([s EXCEPT !.finished = TRUE],
                        CommandRunResult(FALSE, code, FALSE, TRUE, s.stdout, <<>>)))
    ELSE Disarm(Resolve([s EXCEPT !.finished = TRUE],
                        CommandRunResult(code = Some(0), code, FALSE, FALSE, s.stdout, <<>>)))

\* run(options) has started the command with one of its engines
RunCalled ==
    /\ Idle
    /\ \E engine \in {"run_in_terminal", "spawn"} :
          fcall = Some(RunState(engine, FALSE, FALSE, TRUE, FALSE, <<>>, FALSE, {}, 0, NULL))
    /\ fret = NULL

\* the timer fires: timedOut is set and the command is cancelled or killed
TimerFires ==
    /\ fcall[1].armed
    /\ ~fcall[1].timedOut
    /\ fcall' = Some([fcall[1] EXCEPT !.timedOut = TRUE, !.signalled = TRUE])
    /\ UNCHANGED <<run, fret>>

\* the caller cancels its token, before or after the command has ended; the
\* listener, unless disposed, cancels or kills the command
TokenCancelled ==
    /\ ~fcall[1].cancelRequested
    /\ fcall' = Some([fcall[1] EXCEPT !.cancelRequested = TRUE,
                                      !.signalled = @ \/ fcall[1].armed])
    /\ UNCHANGED <<run, fret>>

\* the terminal tool returns its result
ToolResolves ==
    \E c \in ExitCodes :
        /\ fcall[1].engine = "run_in_terminal"
        /\ fcall[1].settled = 0
        /\ fcall' = Some(ToolReturned(fcall[1], c))
        /\ UNCHANGED <<run, fret>>

\* the terminal tool throws, because it was cancelled or for another reason
ToolRejects ==
    /\ fcall[1].engine = "run_in_terminal"
    /\ fcall[1].settled = 0
    /\ fcall' = Some(ToolFailed(fcall[1]))
    /\ UNCHANGED <<run, fret>>

\* the stdout of the child emits "data"
ChildData ==
    /\ fcall[1].engine = "spawn"
    /\ "close" \notin fcall[1].events
    /\ Len(fcall[1].stdout) < MaxData
    /\ fcall' = Some([fcall[1] EXCEPT !.stdout = @ \o <<"o">>])
    /\ UNCHANGED <<run, fret>>

\* the child emits "error"
ChildError ==
    /\ fcall[1].engine = "spawn"
    /\ "error" \notin fcall[1].events
    /\ fcall' = Some(OnError([fcall[1] EXCEPT !.events = @ \cup {"error"}]))
    /\ UNCHANGED <<run, fret>>

\* the child emits "close"
ChildClose ==
    \E code \in ExitCodes :
        /\ fcall[1].engine = "spawn"
        /\ "close" \notin fcall[1].events
        /\ fcall' = Some(OnClose([fcall[1] EXCEPT !.events = @ \cup {"close"}], code))
        /\ UNCHANGED <<run, fret>>

NextRunner ==
    \/ TimerFires
    \/ TokenCancelled
    \/ ToolResolves
    \/ ToolRejects
    \/ ChildData
    \/ ChildError
    \/ ChildClose

SpecRunner == RunCalled /\ [][NextRunner]_vars

\* the promise of run was resolved with a CommandRunResult
HasRunResult == fcall[1].result # NULL /\ "success" \in DOMAIN fcall[1].result[1]

\* the promise of run was rejected
RunRejected == fcall[1].result # NULL /\ ~HasRunResult

\* at most one of success, timedOut and cancelled is true
AtMostOneFlag(r) ==
    /\ ~(r.success /\ r.timedOut)
    /\ ~(r.success /\ r.cancelled)
    /\ ~(r.timedOut /\ r.cancelled)

\* the command has ended for run: the terminal tool has returned or thrown,
\* or the child has emitted "close" or "error"
CommandEnded ==
    IF fcall[1].engine = "spawn" THEN fcall[1].events # {} ELSE fcall[1].settled > 0

\* the promise of run never settles twice, and has settled once the command
\* has ended
SettlesOnce ==
    /\ fcall[1].settled <= 1
    /\ fcall[1].settled = 1 <=> fcall[1].result # NULL
    /\ CommandEnded => fcall[1].settled = 1

\* C40: every CommandRunResult, from either engine and under any ordering of
\* the timeout, cancellation, error and close events, has at most one of
\* success, timedOut and cancelled true, and has success = true only when the
\* command exited with code 0; the promise returned by run settles exactly
\* once.
C40_FlagsExclusiveSuccessIsExitZero ==
    /\ SettlesOnce
    /\ HasRunResult =>
          /\ AtMostOneFlag(fcall[1].result[1])
          /\ fcall[1].result[1].success => fcall[1].result[1].exitCode = Some(0)

\* what the two engines ensure: the flags exclude each other and the promise
\* settles once; with spawn, success is true exactly for a command that
\* closed with code 0 and was neither timed out nor cancelled; with the
\* terminal tool, success is true whenever the tool returned, whatever exit
\* code it reported
C40_FlagsExclusiveSuccessPerEngine ==
    /\ SettlesOnce
    /\ HasRunResult =>
          /\ AtMostOneFlag(fcall[1].result[1])
          /\ fcall[1].engine = "spawn" =>
                (fcall[1].result[1].success <=>
                    /\ fcall[1].result[1].exitCode = Some(0)
                    /\ ~fcall[1].timedOut
                    /\ ~fcall[1].result[1].cancelled)
          /\ fcall[1].engine = "run_in_terminal" =>
                (fcall[1].result[1].success <=>
                    (~fcall[1].result[1].timedOut /\ ~fcall[1].result[1].cancelled))

\* run has resolved with success = true for a command that the terminal
\* tool reported to have exited with code 1
C40_Witness ==
    /\ pc = "call"
    /\ fcall # NULL
    /\ fcall[1].engine = "run_in_terminal"
    /\ HasRunResult
    /\ fcall[1].result[1].success
    /\ fcall[1].result[1].exitCode = Some(1)

====
